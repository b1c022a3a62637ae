------------------------- MODULE ObjectStoreProofs -------------------------
(***************************************************************************)
(* ObjectStore, for any writers, objects and bounds: addresses are absent  *)
(* or complete, and the store implements WriteOnceStore.                   *)
(***************************************************************************)
EXTENDS ObjectStore, TLAPS

\* Whatever is linked is whole and flushed; whatever is acknowledged has its
\* entry on the disk; a link is only attempted on synced bytes, and an
\* acknowledgement only of an occupied address; a task holds and refers to
\* nothing but acknowledged objects.
IInv ==
    /\ TypeOK
    /\ linked \subseteq whole /\ linked \subseteq flushed
    /\ acked \subseteq durable
    /\ refs \subseteq acked /\ \A w \in Writers : held[w] \subseteq acked
    /\ \A w \in Writers : /\ pc[w] = "link" => tmp[w] = "synced"
                          /\ pc[w] = "dirsync" => obj[w] \in linked

\* No file exists and no call is in progress.
LEMMA InitEstablishes == Init => IInv
  BY DEF Init, IInv, TypeOK, Places

\* A call that ends disturbs nothing the invariant says of the others.
LEMMA ReturnKeeps ==
  ASSUME IInv, NEW w \in Writers, NEW answer \in {"ok", "failed", "corrupt", "none"},
         Returns(w, answer), UNCHANGED <<files, obj, record, acked, calls>>,
         faults' \in Nat
  PROVE  IInv'
  BY DEF IInv, TypeOK, Places, Returns, files, record

LEMMA OccupiedKeeps ==
  ASSUME IInv, NEW w \in Writers, obj[w] \in linked, Occupied(w),
         UNCHANGED <<files, obj, record, acked, calls>>
  PROVE  IInv'
  <1>1. CASE obj[w] \in whole /\ Goes(w, "dirsync") /\ UNCHANGED <<tmp, faults>>
    BY <1>1 DEF IInv, TypeOK, Places, Goes, files, record
  <1>2. CASE /\ Returns(w, "corrupt")
             /\ UNCHANGED faults \/ Fault
    <2>1. faults' \in Nat
      BY <1>2 DEF Fault, IInv, TypeOK
    <2> QED BY <1>2, <2>1, ReturnKeeps
  <1> QED BY <1>1, <1>2 DEF Occupied

\* Every step keeps the invariant.
LEMMA NextKeeps == IInv /\ [Next]_vars => IInv'
  <1> SUFFICES ASSUME IInv, [Next]_vars PROVE IInv'
    OBVIOUS
  <1>1. CASE PowerFails
    BY <1>1 DEF PowerFails, Fault, IInv, TypeOK, Places
  <1>2. ASSUME NEW w \in Writers, Begin(w) PROVE IInv'
    BY <1>2 DEF Begin, Goes, IInv, TypeOK, Places, files, record
  <1>3. ASSUME NEW w \in Writers, Look(w) PROVE IInv'
    <2>1. CASE obj[w] \in linked /\ Occupied(w)
      BY <1>3, <2>1, OccupiedKeeps DEF Look
    <2>2. CASE Goes(w, "write") /\ UNCHANGED tmp /\ (Fault \/ UNCHANGED faults)
      BY <1>3, <2>2 DEF Look, Goes, Fault, IInv, TypeOK, Places, files, record
    <2> QED BY <1>3, <2>1, <2>2 DEF Look
  <1>4. ASSUME NEW w \in Writers, Write(w) PROVE IInv'
    BY <1>4 DEF Write, Goes, IInv, TypeOK, Places, files, record
  <1>5. ASSUME NEW w \in Writers, Sync(w) PROVE IInv'
    BY <1>5 DEF Sync, Goes, IInv, TypeOK, Places, files, record
  <1>6. ASSUME NEW w \in Writers, Link(w) PROVE IInv'
    <2>1. CASE obj[w] \in linked /\ Occupied(w) /\ UNCHANGED files
      BY <1>6, <2>1, OccupiedKeeps DEF Link
    <2>2. CASE obj[w] \notin linked
      BY <1>6, <2>2 DEF Link, Goes, IInv, TypeOK, Places, files, record
    <2> QED BY <1>6, <2>1, <2>2 DEF Link
  <1>7. ASSUME NEW w \in Writers, DirSync(w) PROVE IInv'
    BY <1>7 DEF DirSync, Confirms, Returns, IInv, TypeOK, Places
  <1>8. ASSUME NEW w \in Writers, Fails(w) PROVE IInv'
    <2>1. faults' \in Nat
      BY <1>8 DEF Fails, Fault, IInv, TypeOK
    <2> QED BY <1>8, <2>1, ReturnKeeps DEF Fails
  <1>9. ASSUME NEW w \in Writers, Crash(w) PROVE IInv'
    BY <1>9 DEF Crash, Fault, Returns, IInv, TypeOK, Places, files
  <1>10. ASSUME NEW w \in Writers, Refer(w) PROVE IInv'
    BY <1>10 DEF Refer, IInv, TypeOK, Places, files
  <1>11. CASE UNCHANGED vars
    BY <1>11 DEF vars, files, record, IInv, TypeOK, Places
  <1> QED BY <1>1, <1>2, <1>3, <1>4, <1>5, <1>6, <1>7, <1>8, <1>9, <1>10,
             <1>11 DEF Next, Step

\* The state has its type in every reachable state.
THEOREM StoreTyped == Spec => []TypeOK
  <1>1. IInv => TypeOK
    BY DEF IInv
  <1> QED BY InitEstablishes, NextKeeps, <1>1, PTL DEF Spec

\* No crash, power failure, failed step or race of writers leaves an address
\* that is neither absent nor complete.
THEOREM StoreNeverPoisoned == Spec => []NeverPoisoned
  <1>1. IInv => NeverPoisoned
    BY DEF IInv, NeverPoisoned
  <1> QED BY InitEstablishes, NextKeeps, <1>1, PTL DEF Spec

\* What a committed event of any task refers to can be read back after every
\* crash and power failure, whoever published it (sink.go's reference check
\* and the callers of StoreObject).
THEOREM ReferencesAlwaysSurvive == Spec => []ReferencesSurvive
  <1>1. IInv => ReferencesSurvive
    <2> SUFFICES ASSUME IInv, NEW a \in refs PROVE a \in Readable
      BY DEF ReferencesSurvive
    <2>1. a \in acked /\ a \in durable /\ a \in linked
      BY DEF IInv, TypeOK
    <2> QED BY <2>1 DEF IInv, Readable
  <1> QED BY InitEstablishes, NextKeeps, <1>1, PTL DEF Spec

\* The initial store is the abstract one.
LEMMA InitRefines == Init => Promise!Init
  BY DEF Init, Promise!Init, Readable

\* Every step is a step of WriteOnceStore or leaves its state alone.
LEMMA StepRefines ==
  IInv /\ [Next]_vars => [Promise!Next]_<<Readable, acked>>
  <1> SUFFICES ASSUME IInv, [Next]_vars
               PROVE  [Promise!Next]_<<Readable, acked>>
    OBVIOUS
  <1> USE DEF Readable
  <1>1. CASE PowerFails
    <2>1. Readable' \in SUBSET Readable /\ acked \subseteq Readable'
      BY <1>1 DEF PowerFails, IInv, TypeOK
    <2> QED BY <1>1, <2>1 DEF PowerFails, Promise!Next, Promise!Lose
  <1>2. ASSUME NEW w \in Writers, Link(w) PROVE [Promise!Next]_<<Readable, acked>>
    <2>1. CASE UNCHANGED files
      BY <1>2, <2>1 DEF Link, files
    <2>2. CASE linked' = linked \cup {obj[w]} /\ whole' = whole \cup {obj[w]}
      <3>1. Readable' = Readable \cup {obj[w]}
        BY <2>2 DEF IInv, TypeOK
      <3>2. Promise!Publish(obj[w])
        BY <1>2, <3>1 DEF Promise!Publish, Link
      <3> QED BY <3>2 DEF Promise!Next, IInv, TypeOK
    <2> QED BY <1>2, <2>1, <2>2 DEF Link
  <1>3. ASSUME NEW w \in Writers, DirSync(w)
        PROVE  [Promise!Next]_<<Readable, acked>>
    <2>1. obj[w] \in Readable /\ obj[w] \in Objects
      BY <1>3 DEF DirSync, IInv, TypeOK
    <2>2. Promise!Acknowledge(obj[w])
      BY <1>3, <2>1 DEF DirSync, Confirms, Promise!Acknowledge
    <2> QED BY <2>1, <2>2 DEF Promise!Next
  <1>4. ASSUME NEW w \in Writers,
               \/ Begin(w) \/ Look(w) \/ Write(w) \/ Sync(w)
               \/ Fails(w) \/ Refer(w) \/ Crash(w)
        PROVE  UNCHANGED <<Readable, acked>>
    BY <1>4 DEF Begin, Look, Write, Sync, Fails, Refer, Crash, files
  <1>5. CASE UNCHANGED vars
    BY <1>5 DEF vars, files
  <1> QED BY <1>1, <1>2, <1>3, <1>4, <1>5 DEF Next, Step

\* The object store keeps the promise of a write-once store: whole objects
\* appear, and what was acknowledged is never lost.
THEOREM StoreKeepsPromise == Spec => KeepsPromise
  <1> QED BY InitEstablishes, NextKeeps, InitRefines, StepRefines, PTL
          DEF Spec, KeepsPromise, Promise!Spec

=============================================================================
