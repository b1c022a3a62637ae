-------------------------- MODULE DeploymentProofs --------------------------
(***************************************************************************)
(* Deployment, for any files, edits, registries, anchors, catalogs and     *)
(* requests: what the registry of anchors means over the time of its       *)
(* deployment, what a task runs, what its record says of it, and that no   *)
(* call of it gets past the template of its skill.                         *)
(***************************************************************************)
EXTENDS Deployment, SequenceTheorems, FiniteSetTheorems, WellFoundedInduction, TLAPS

(***************************************************************************)
(* What Open and SubmitTask hold in memory: which fields, at which step.   *)
(***************************************************************************)

OrchPcs == {"closed", "started", "checked", "admitted", "verified", "recording", "recorded", "open"}

OrchFields(pc) ==
    {"pc"}
    \cup (IF pc # "closed" THEN {"expected", "held", "policy", "moved"} ELSE {})
    \cup (IF pc \notin {"closed", "started"} THEN {"checked"} ELSE {})
    \cup (IF pc \notin {"closed", "started", "checked"} THEN {"anchor", "by"} ELSE {})
    \cup (IF pc \in {"verified", "recording", "recorded", "open"} THEN {"ceiling"} ELSE {})
    \cup (IF pc \in {"recording", "recorded", "open"} THEN {"recorded"} ELSE {})
    \cup (IF pc = "open" THEN {"eis"} ELSE {})

TaskPcs == {"none", "refused", "loaded", "admitted", "captured", "instance", "provisioned",
            "resolved", "running"}

TaskFields(pc) ==
    {"pc"}
    \cup (IF pc \notin {"none", "refused"} THEN {"env", "read", "moved"} ELSE {})
    \cup (IF pc \notin {"none", "refused", "loaded"} THEN {"manifest", "catalog"} ELSE {})
    \cup (IF pc \in {"captured", "instance", "provisioned", "resolved", "running"}
          THEN {"bodies"} ELSE {})
    \cup (IF pc \in {"instance", "provisioned", "resolved", "running"} THEN {"grant"} ELSE {})
    \cup (IF pc \in {"provisioned", "resolved", "running"} THEN {"effective"} ELSE {})
    \cup (IF pc \in {"resolved", "running"} THEN {"procedure", "eis"} ELSE {})

OrchOK == orch.pc \in OrchPcs /\ DOMAIN orch = OrchFields(orch.pc)
TaskOK == task.pc \in TaskPcs /\ DOMAIN task = TaskFields(task.pc)

\* A task is offered to an open orchestrator, and one with a record has been.
PhaseOK ==
    /\ offer # << >> => orch.pc = "open"
    /\ task.pc # "none" \/ record # << >> => offer # << >>
    /\ record # << >> <=> task.pc = "running"

\* A sequence, of whatever its members are.
IsSeq(s) == s \in Seq({s[i] : i \in DOMAIN s})

TypeOK == OrchOK /\ TaskOK /\ PhaseOK /\ DOMAIN disk = DOMAIN Initial /\ IsSeq(seen)

LEMMA Appended ==
  ASSUME NEW s, IsSeq(s), NEW x
  PROVE  /\ IsSeq(Append(s, x)) /\ Len(s) \in Nat /\ DOMAIN s = 1 .. Len(s)
         /\ Len(Append(s, x)) = Len(s) + 1 /\ Append(s, x)[Len(s) + 1] = x
         /\ \A i \in 1 .. Len(s) : Append(s, x)[i] = s[i]
  <1> DEFINE S == {s[i] : i \in DOMAIN s} \cup {x}
             a == Append(s, x)
  <1>1. s \in Seq(S)
    BY DEF IsSeq
  <1>2. /\ Len(s) \in Nat /\ DOMAIN s = 1 .. Len(s) /\ a \in Seq(S)
        /\ Len(a) = Len(s) + 1 /\ DOMAIN a = 1 .. Len(s) + 1
        /\ a[Len(s) + 1] = x /\ \A i \in 1 .. Len(s) : a[i] = s[i]
    <2> HIDE DEF S
    <2>1. x \in S
      BY DEF S
    <2> QED BY <1>1, <2>1, AppendProperties, LenProperties
  <1>3. \A i \in 1 .. Len(a) : a[i] \in {a[i_1] : i_1 \in DOMAIN a}
    BY <1>2
  <1>4. a \in [1 .. Len(a) -> {a[i] : i \in DOMAIN a}] /\ Len(a) \in Nat
    <2> HIDE DEF a
    <2> QED BY <1>2, <1>3
  <1>5. IsSeq(a)
    <2> HIDE DEF a
    <2> QED BY <1>4 DEF IsSeq
  <1> QED BY <1>2, <1>5

LEMMA TypeInit == Init => TypeOK
  <1>1. IsSeq(<< >>)
    BY DEF IsSeq
  <1> QED BY <1>1 DEF Init, TypeOK, OrchOK, TaskOK, PhaseOK, OrchPcs, TaskPcs, OrchFields,
                       TaskFields, Closed, NoTask

\* A step of Open holds the fields of the next state.
LEMMA OrchStep ==
  ASSUME OrchOK,
         \/ Start \/ ReadRegistry \/ Admit \/ VerifyPlane \/ BeginRecording \/ EndRecording
         \/ Opened \/ Restart
  PROVE  OrchOK'
  <1> USE DEF OrchOK, OrchPcs, OrchFields
  <1>1. CASE Start
    BY <1>1 DEF Start
  <1>2. CASE ReadRegistry
    BY <1>2 DEF ReadRegistry, With, Closed
  <1>3. CASE Admit
    BY <1>3 DEF Admit, With, Closed
  <1>4. CASE VerifyPlane
    BY <1>4 DEF VerifyPlane, With, Closed
  <1>5. CASE BeginRecording
    BY <1>5 DEF BeginRecording, With
  <1>6. CASE EndRecording
    BY <1>6 DEF EndRecording
  <1>7. CASE Opened
    BY <1>7 DEF Opened, With
  <1>8. CASE Restart
    BY <1>8 DEF Restart, Closed
  <1> QED BY <1>1, <1>2, <1>3, <1>4, <1>5, <1>6, <1>7, <1>8

\* And a step of SubmitTask.
LEMMA TaskStep ==
  ASSUME TaskOK,
         \/ Submit \/ AnchorAdmits \/ Capture \/ CheckInstance \/ Provision
         \/ resolveTaskEIS \/ CreateTask
  PROVE  TaskOK' /\ (CreateTask \/ task'.pc # "running")
  <1> USE DEF TaskOK, TaskPcs, TaskFields
  <1>1. ASSUME NEW ok, NEW next, Advance(ok, next), next.pc \in TaskPcs,
               DOMAIN next = TaskFields(next.pc), next.pc # "running"
        PROVE  TaskOK' /\ task'.pc # "running"
    <2>1. task' = next \/ task' = Refused
      BY <1>1 DEF Advance
    <2>2. Refused.pc = "refused" /\ DOMAIN Refused = {"pc"}
      BY DEF Refused
    <2> QED BY <1>1, <2>1, <2>2
  <1>2. CASE Submit
    <2>1. PICK ok, env, read : Advance(ok, [pc |-> "loaded", env |-> env, read |-> read, moved |-> {}])
      BY <1>2, Zenon DEF Submit
    <2> DEFINE next == [pc |-> "loaded", env |-> env, read |-> read, moved |-> {}]
    <2>2. next.pc = "loaded" /\ DOMAIN next = TaskFields("loaded")
      OBVIOUS
    <2> HIDE DEF next
    <2> QED BY <1>1, <2>1, <2>2 DEF next
  <1>3. CASE AnchorAdmits
    <2>1. PICK ok, m : Advance(ok, With(task, [pc |-> "admitted", manifest |-> m,
                                              catalog |-> disk["catalog"]]))
      BY <1>3, Zenon DEF AnchorAdmits
    <2> DEFINE next == With(task, [pc |-> "admitted", manifest |-> m, catalog |-> disk["catalog"]])
    <2>2. next.pc = "admitted" /\ DOMAIN next = TaskFields("admitted")
      BY <1>3 DEF AnchorAdmits, With
    <2> HIDE DEF next
    <2> QED BY <1>1, <2>1, <2>2 DEF next
  <1>4. CASE Capture
    <2>1. PICK ok, body : Advance(ok, With(task, [pc |-> "captured", bodies |-> body]))
      BY <1>4, Zenon DEF Capture
    <2> DEFINE next == With(task, [pc |-> "captured", bodies |-> body])
    <2>2. next.pc = "captured" /\ DOMAIN next = TaskFields("captured")
      BY <1>4 DEF Capture, With
    <2> HIDE DEF next
    <2> QED BY <1>1, <2>1, <2>2 DEF next
  <1>5. CASE CheckInstance
    <2>1. PICK ok, grant : Advance(ok, With(task, [pc |-> "instance", grant |-> grant]))
      BY <1>5, Zenon DEF CheckInstance
    <2> DEFINE next == With(task, [pc |-> "instance", grant |-> grant])
    <2>2. next.pc = "instance" /\ DOMAIN next = TaskFields("instance")
      BY <1>5 DEF CheckInstance, With
    <2> HIDE DEF next
    <2> QED BY <1>1, <2>1, <2>2 DEF next
  <1>6. CASE Provision
    <2>1. PICK ok, grant : Advance(ok, With(task, [pc |-> "provisioned", effective |-> grant]))
      BY <1>6, Zenon DEF Provision
    <2> DEFINE next == With(task, [pc |-> "provisioned", effective |-> grant])
    <2>2. next.pc = "provisioned" /\ DOMAIN next = TaskFields("provisioned")
      BY <1>6 DEF Provision, With
    <2> HIDE DEF next
    <2> QED BY <1>1, <2>1, <2>2 DEF next
  <1>7. CASE resolveTaskEIS
    <2>1. PICK ok, proc : Advance(ok, With(task, [pc |-> "resolved", procedure |-> proc,
                                                 eis |-> disk["instructions"]]))
      BY <1>7, Zenon DEF resolveTaskEIS
    <2> DEFINE next == With(task, [pc |-> "resolved", procedure |-> proc, eis |-> disk["instructions"]])
    <2>2. next.pc = "resolved" /\ DOMAIN next = TaskFields("resolved")
      BY <1>7 DEF resolveTaskEIS, With
    <2> HIDE DEF next
    <2> QED BY <1>1, <2>1, <2>2 DEF next
  <1>8. CASE CreateTask
    BY <1>8 DEF CreateTask
  <1> QED BY <1>2, <1>3, <1>4, <1>5, <1>6, <1>7, <1>8

\* An edit moves a path and changes nothing else that is held in memory.
LEMMA EditKeeps ==
  ASSUME NEW r, NEW p, NEW fields, DOMAIN r = fields, "moved" \in fields \/ fields = {"pc"}
  PROVE  /\ DOMAIN Moved(r, p) = fields
         /\ \A f \in fields \ {"moved"} : Moved(r, p)[f] = r[f]
         /\ "moved" \in fields => Moved(r, p).moved = r.moved \cup {p}
  BY DEF Moved

LEMMA EditStep ==
  ASSUME OrchOK, TaskOK, Edit
  PROVE  OrchOK' /\ TaskOK'
  <1>1. PICK p \in DOMAIN Versions : /\ orch' = (IF orch.pc = "open" THEN orch ELSE Moved(orch, p))
                                      /\ task' = Moved(task, p)
    BY DEF Edit
  <1>2. DOMAIN Moved(orch, p) = DOMAIN orch /\ Moved(orch, p).pc = orch.pc
    BY EditKeeps DEF OrchOK, OrchFields, OrchPcs
  <1>3. DOMAIN Moved(task, p) = DOMAIN task /\ Moved(task, p).pc = task.pc
    BY EditKeeps DEF TaskOK, TaskFields, TaskPcs
  <1>4. OrchOK'
    BY <1>1, <1>2 DEF OrchOK
  <1>5. TaskOK'
    BY <1>1, <1>3 DEF TaskOK
  <1> QED BY <1>4, <1>5

Opening ==
    \/ Start \/ ReadRegistry \/ Admit \/ VerifyPlane \/ BeginRecording \/ EndRecording
    \/ Opened \/ Restart

Submitting ==
    \/ Submit \/ AnchorAdmits \/ Capture \/ CheckInstance \/ Provision
    \/ resolveTaskEIS \/ CreateTask

Offering == InstantiateSkill \/ Assemble

\* What the steps of each party leave alone.
LEMMA OpeningLeaves ==
  ASSUME Opening
  PROVE  UNCHANGED <<disk, offer, task, record>> /\ (orch.pc # "open" \/ offer = << >>)
  <1>1. CASE Restart
    BY <1>1 DEF Restart
  <1>2. CASE ~Restart
    BY <1>2 DEF Opening, Start, ReadRegistry, Admit, VerifyPlane, BeginRecording, EndRecording, Opened
  <1> QED BY <1>1, <1>2

LEMMA SubmittingLeaves ==
  ASSUME Submitting
  PROVE  UNCHANGED <<disk, observed, orch, seen, offer>>
  BY DEF Submitting, Submit, AnchorAdmits, Capture, CheckInstance, Provision,
         resolveTaskEIS, CreateTask, Advance

LEMMA OfferingLeaves ==
  ASSUME Offering
  PROVE  /\ UNCHANGED <<observed, orch, seen, task, record>> /\ NoOffer /\ offer' # << >>
         /\ \E env : disk' = [disk EXCEPT !["grant"] = env.grant, !["spec"] = env.spec]
  BY DEF Offering, InstantiateSkill, Assemble, Offer

LEMMA Parties ==
  ASSUME [Next]_vars
  PROVE  Opening \/ Submitting \/ Offering \/ Edit \/ UNCHANGED vars
  BY DEF Next, Opening, Submitting, Offering

LEMMA TypeStep == TypeOK /\ [Next]_vars => TypeOK'
  <1> SUFFICES ASSUME TypeOK, [Next]_vars PROVE TypeOK'
    OBVIOUS
  <1>1. OrchOK' /\ TaskOK'
    <2>1. CASE Opening
      BY <2>1, OrchStep, OpeningLeaves DEF TypeOK, TaskOK, Opening
    <2>2. CASE Submitting
      BY <2>2, TaskStep, SubmittingLeaves DEF TypeOK, OrchOK, Submitting
    <2>3. CASE Offering \/ UNCHANGED vars
      BY <2>3, OfferingLeaves DEF TypeOK, OrchOK, TaskOK, vars
    <2>4. CASE Edit
      BY <2>4, EditStep DEF TypeOK
    <2> QED BY <2>1, <2>2, <2>3, <2>4, Parties
  <1>2. DOMAIN disk' = DOMAIN Initial
    BY Parties, OpeningLeaves, SubmittingLeaves, OfferingLeaves DEF TypeOK, Edit, vars
  <1>3. IsSeq(seen)'
    <2>1. \A x : IsSeq(Append(seen, x))
      BY Appended DEF TypeOK
    <2>2. CASE Opening
      BY <2>1, <2>2 DEF TypeOK, Opening, Start, ReadRegistry, Admit, VerifyPlane, BeginRecording,
                        EndRecording, Opened, Restart
    <2>3. CASE ~Opening
      BY <2>3, Parties, SubmittingLeaves, OfferingLeaves DEF TypeOK, Edit, vars
    <2> QED BY <2>2, <2>3
  <1>4. PhaseOK'
    <2>1. CASE Opening
      <3>1. offer = << >> /\ UNCHANGED <<offer, task, record>>
        BY <2>1, OpeningLeaves DEF TypeOK, PhaseOK
      <3> QED BY <3>1 DEF TypeOK, PhaseOK
    <2>2. CASE Submitting
      <3>1. UNCHANGED <<orch, offer>> /\ offer # << >> /\ record = << >>
        <4>1. UNCHANGED <<orch, offer>>
          BY <2>2, SubmittingLeaves
        <4>2. offer # << >> /\ task.pc \notin {"running", "refused"}
          <5>1. CASE Submit
            <6>1. offer # << >> /\ task = NoTask
              BY <5>1, Zenon DEF Submit
            <6> QED BY <6>1 DEF NoTask
          <5>2. CASE ~Submit
            <6>1. task.pc \in {"loaded", "admitted", "captured", "instance", "provisioned", "resolved"}
              BY <2>2, <5>2 DEF Submitting, AnchorAdmits, Capture, CheckInstance, Provision,
                                resolveTaskEIS, CreateTask
            <6> QED BY <6>1 DEF TypeOK, PhaseOK
          <5> QED BY <5>1, <5>2
        <4> QED BY <4>1, <4>2 DEF TypeOK, PhaseOK
      <3>2. CASE CreateTask
        <4>1. task'.pc = "running" /\ record' # << >>
          BY <3>2 DEF CreateTask, TypeOK, TaskOK, TaskFields
        <4> QED BY <3>1, <4>1 DEF TypeOK, PhaseOK
      <3>3. CASE ~CreateTask
        <4>1. task'.pc # "running"
          BY <2>2, <3>3, TaskStep DEF TypeOK, Submitting
        <4>2. record' = record
          BY <2>2, <3>3 DEF Submitting, Submit, AnchorAdmits, Capture, CheckInstance,
                            Provision, resolveTaskEIS, Advance
        <4> QED BY <3>1, <4>1, <4>2 DEF TypeOK, PhaseOK
      <3> QED BY <3>2, <3>3
    <2>3. CASE Offering
      <3>1. orch.pc = "open" /\ offer' # << >> /\ UNCHANGED <<orch, task, record>>
        BY <2>3 DEF Offering, InstantiateSkill, Assemble, Offer, NoOffer
      <3> QED BY <3>1 DEF TypeOK, PhaseOK
    <2>4. CASE Edit
      <3>1. task'.pc = task.pc /\ orch'.pc = orch.pc /\ UNCHANGED <<offer, record>>
        <4>1. PICK p \in DOMAIN Versions : /\ orch' = (IF orch.pc = "open" THEN orch ELSE Moved(orch, p))
                                            /\ task' = Moved(task, p)
          BY <2>4 DEF Edit
        <4>2. Moved(orch, p).pc = orch.pc
          BY EditKeeps DEF TypeOK, OrchOK, OrchFields, OrchPcs
        <4>3. Moved(task, p).pc = task.pc
          BY EditKeeps DEF TypeOK, TaskOK, TaskFields, TaskPcs
        <4> QED BY <2>4, <4>1, <4>2, <4>3 DEF Edit
      <3> QED BY <3>1 DEF TypeOK, PhaseOK
    <2>5. CASE UNCHANGED vars
      BY <2>5 DEF vars, TypeOK, PhaseOK
    <2> QED BY <2>1, <2>2, <2>3, <2>4, <2>5, Parties
  <1> QED BY <1>1, <1>2, <1>3, <1>4 DEF TypeOK

\* Whatever step Open or SubmitTask has reached (orchestrator.go Open,
\* assembly.go SubmitTask), it holds in memory exactly the fields that the
\* steps before it read; a task is offered only to an open orchestrator, and
\* exactly the running one has a record.
THEOREM TypesHold == Spec => []TypeOK
  BY TypeInit, TypeStep, PTL DEF Spec

(***************************************************************************)
(* The registry of anchors over the time of its deployment.                *)
(***************************************************************************)

\* The rule of the registry is one of a whole history.
LEMMA Transitive ==
  ASSUME NEW cur, NEW mid, NEW prior, CheckAppendOnly(cur, mid), CheckAppendOnly(mid, prior)
  PROVE  CheckAppendOnly(cur, prior)
  <1> SUFFICES ASSUME NEW p \in Entries(prior)
               PROVE  \E e \in Entries(cur) :
                        /\ Key(e) = Key(p) /\ e.artifact = p.artifact
                        /\ p.state = "withdrawn" => e.state = "withdrawn"
    BY DEF CheckAppendOnly
  <1>1. PICK m \in Entries(mid) : /\ Key(m) = Key(p) /\ m.artifact = p.artifact
                                  /\ p.state = "withdrawn" => m.state = "withdrawn"
    BY Zenon DEF CheckAppendOnly
  <1>2. PICK e \in Entries(cur) : /\ Key(e) = Key(m) /\ e.artifact = m.artifact
                                  /\ m.state = "withdrawn" => e.state = "withdrawn"
    BY Zenon DEF CheckAppendOnly
  <1> QED BY <1>1, <1>2, Zenon

HasAnchor == orch.pc \in {"admitted", "verified", "recording", "recorded", "open"}

\* What is checked follows the registry recorded last.
Continues(reg) ==
    seen # << >> =>
        LET last == seen[Len(seen)].recorded IN
        last # "none" => parseRegistry(last) /\ CheckAppendOnly(Registries[reg], Registries[last])

SeenWell(s) == LoadRegistryOf(s.checked) /\ AdmitAnchor(s.anchor, s.anchor, s.by)

Joined(s, i, j) ==
    (\A k \in 1 .. j : OneHistory(s[k])) =>
        CheckAppendOnly(Registries[s[j].checked], Registries[s[i].recorded])

RegistryInv ==
    /\ TypeOK
    /\ seen # << >> => observed \in {"torn", seen[Len(seen)].recorded}
    /\ orch.pc \in {"checked", "admitted", "verified", "recording"} =>
         LoadRegistryOf(orch.checked) /\ Continues(orch.checked)
    /\ HasAnchor => AdmitAnchor(orch.anchor, orch.anchor, orch.by)
    /\ \A j \in 1 .. Len(seen) : SeenWell(seen[j])
    /\ \A i, j \in 1 .. Len(seen) : i < j => Joined(seen, i, j)

LEMMA RegistryInit == Init => RegistryInv
  <1> SUFFICES ASSUME Init PROVE RegistryInv
    OBVIOUS
  <1>1. seen = << >> /\ Len(seen) = 0 /\ orch.pc = "closed"
    BY DEF Init, Closed
  <1> QED BY <1>1, TypeInit DEF RegistryInv, HasAnchor

\* What was recorded joins what was recorded before it.
LEMMA RecordingJoins ==
  ASSUME RegistryInv, EndRecording
  PROVE  /\ \A j \in 1 .. Len(seen') : SeenWell(seen'[j])
         /\ \A i, j \in 1 .. Len(seen') : i < j => Joined(seen', i, j)
  <1> DEFINE n == Len(seen)
             new == [checked |-> orch.checked, by |-> orch.by, recorded |-> orch.recorded,
                     anchor |-> orch.anchor]
  <1>1. orch.pc = "recording" /\ seen' = Append(seen, new)
    BY DEF EndRecording
  <1>2. new.checked = orch.checked /\ new.by = orch.by /\ new.anchor = orch.anchor
    OBVIOUS
  <1> HIDE DEF new
  <1>3. /\ n \in Nat /\ DOMAIN seen = 1 .. n /\ Len(seen') = n + 1 /\ seen'[n + 1] = new
        /\ \A i \in 1 .. n : seen'[i] = seen[i]
    BY <1>1, Appended DEF RegistryInv, TypeOK
  <1>4. SeenWell(new)
    BY <1>1, <1>2 DEF RegistryInv, SeenWell, HasAnchor
  <1>5. \A j \in 1 .. n + 1 : j \in 1 .. n \/ j = n + 1
    BY <1>3
  <1>6. \A j \in 1 .. n + 1 : SeenWell(seen'[j])
    BY <1>3, <1>4, <1>5 DEF RegistryInv
  <1>7. ASSUME NEW i \in 1 .. n, NEW j \in 1 .. n, i < j PROVE Joined(seen', i, j)
    <2>1. \A k \in 1 .. j : seen'[k] = seen[k]
      BY <1>3
    <2>2. Joined(seen, i, j)
      BY <1>7 DEF RegistryInv
    <2> QED BY <1>3, <1>7, <2>1, <2>2 DEF Joined
  <1>8. ASSUME NEW i \in 1 .. n, \A k \in 1 .. n + 1 : OneHistory(seen'[k])
        PROVE  CheckAppendOnly(Registries[new.checked], Registries[seen[i].recorded])
    <2>1. /\ n \in 1 .. n /\ i <= n /\ seen # << >>
          /\ OneHistory(seen[n]) /\ \A k \in 1 .. n : OneHistory(seen[k])
      BY <1>3, <1>8
    <2>2. parseRegistry(seen[n].recorded)
      BY <2>1 DEF OneHistory
    <2>3. seen[n].recorded # "none"
      BY <2>2, DeploymentAssumption DEF parseRegistry
    <2>4. CheckAppendOnly(Registries[new.checked], Registries[seen[n].recorded])
      BY <1>1, <1>2, <2>1, <2>3 DEF RegistryInv, Continues
    <2>5. CASE i = n
      BY <2>4, <2>5
    <2>6. CASE i < n
      <3>1. CheckAppendOnly(Registries[seen[n].checked], Registries[seen[i].recorded])
        BY <1>8, <2>1, <2>6 DEF RegistryInv, Joined
      <3>2. /\ CheckAppendOnly(Registries[seen[n].by], Registries[seen[n].checked])
            /\ CheckAppendOnly(Registries[seen[n].recorded], Registries[seen[n].by])
        BY <2>1 DEF OneHistory
      <3> QED BY <2>4, <3>1, <3>2, Transitive
    <2>7. i = n \/ i < n
      <3> HIDE DEF n
      <3> QED BY <1>3
    <2> QED BY <2>5, <2>6, <2>7, Zenon
  <1>9. ASSUME NEW i \in 1 .. n PROVE Joined(seen', i, n + 1)
    <2>1. seen'[i].recorded = seen[i].recorded /\ seen'[n + 1].checked = new.checked
      BY <1>3
    <2> QED BY <1>8, <2>1 DEF Joined
  <1> QED BY <1>3, <1>5, <1>6, <1>7, <1>9

LEMMA RegistryStep == RegistryInv /\ [Next]_vars => RegistryInv'
  <1> SUFFICES ASSUME RegistryInv, [Next]_vars PROVE RegistryInv'
    OBVIOUS
  <1>0. TypeOK /\ TypeOK'
    BY TypeStep DEF RegistryInv
  <1>1. CASE EndRecording
    <2>1. /\ \A j \in 1 .. Len(seen') : SeenWell(seen'[j])
          /\ \A i, j \in 1 .. Len(seen') : i < j => Joined(seen', i, j)
      BY <1>1, RecordingJoins
    <2>2. seen' # << >> => observed' \in {"torn", seen'[Len(seen')].recorded}
      <3> DEFINE new == [checked |-> orch.checked, by |-> orch.by, recorded |-> orch.recorded,
                         anchor |-> orch.anchor]
      <3>1. seen' = Append(seen, new) /\ observed' = orch.recorded /\ new.recorded = orch.recorded
        BY <1>1 DEF EndRecording
      <3> HIDE DEF new
      <3>2. seen'[Len(seen')] = new
        BY <1>0, <3>1, Appended DEF TypeOK
      <3> QED BY <3>1, <3>2
    <2>3. orch.pc = "recording" /\ orch'.pc = "recorded" /\ orch'.anchor = orch.anchor /\ orch'.by = orch.by
      BY <1>0, <1>1 DEF EndRecording, TypeOK, OrchOK, OrchFields
    <2> QED BY <1>0, <2>1, <2>2, <2>3 DEF RegistryInv, HasAnchor
  <1>2. ASSUME ~EndRecording,
               seen' = seen,
               orch'.pc \in {"checked", "admitted", "verified", "recording"} =>
                 LoadRegistryOf(orch'.checked) /\ Continues(orch'.checked),
               HasAnchor' => AdmitAnchor(orch'.anchor, orch'.anchor, orch'.by),
               observed' = observed \/ observed' = "torn"
        PROVE  RegistryInv'
    <2>1. orch'.pc \in {"checked", "admitted", "verified", "recording"} => Continues(orch.checked)'
      BY <1>2 DEF Continues
    <2>2. \A j \in 1 .. Len(seen') : SeenWell(seen'[j])
      BY <1>2 DEF RegistryInv
    <2>3. \A i, j \in 1 .. Len(seen') : i < j => Joined(seen', i, j)
      BY <1>2 DEF RegistryInv
    <2> QED BY <1>0, <1>2, <2>1, <2>2, <2>3 DEF RegistryInv
  <1>3. CASE Start
    BY <1>2, <1>3 DEF Start, EndRecording, HasAnchor
  <1>4. CASE ReadRegistry
    <2>1. orch'.pc = "checked" =>
            /\ orch'.checked = disk["anchors"] /\ LoadRegistryOf(orch'.checked)
            /\ PriorHolds(orch'.checked)
      BY <1>4 DEF ReadRegistry, With, Closed
    <2>2. orch'.pc \in {"checked", "closed"}
      BY <1>4 DEF ReadRegistry, With, Closed
    <2>3. ASSUME PriorHolds(orch'.checked) PROVE Continues(orch'.checked)
      <3>1. observed # "torn"
        BY <2>3, DeploymentAssumption DEF PriorHolds, NoPrior, parseRegistry
      <3>2. seen # << >> => observed = seen[Len(seen)].recorded
        BY <3>1 DEF RegistryInv
      <3> QED BY <2>3, <3>2 DEF PriorHolds, NoPrior, Continues
    <2> QED BY <1>2, <1>4, <2>1, <2>2, <2>3 DEF ReadRegistry, EndRecording, HasAnchor
  <1>5. CASE Admit
    <2>1. orch'.pc \in {"admitted", "closed"} /\ orch.pc = "checked"
      BY <1>5 DEF Admit, With, Closed
    <2>2. orch'.pc = "admitted" =>
            /\ orch'.checked = orch.checked /\ AdmitAnchor(orch'.anchor, orch'.anchor, orch'.by)
      <3>1. AdmitAnchor(disk[orch.expected], orch.expected, disk["anchors"]) =>
              AdmitAnchor(orch.expected, orch.expected, disk["anchors"])
        BY DEF AdmitAnchor
      <3> QED BY <1>0, <1>5, <3>1 DEF Admit, With, Closed, TypeOK, OrchOK, OrchFields
    <2> QED BY <1>2, <1>5, <2>1, <2>2 DEF Admit, EndRecording, HasAnchor, RegistryInv
  <1>6. CASE VerifyPlane
    <2>1. orch'.pc \in {"verified", "closed"} /\ orch.pc = "admitted"
      BY <1>6 DEF VerifyPlane, With, Closed
    <2>2. orch'.pc = "verified" =>
            orch'.checked = orch.checked /\ orch'.anchor = orch.anchor /\ orch'.by = orch.by
      BY <1>0, <1>6 DEF VerifyPlane, With, Closed, TypeOK, OrchOK, OrchFields
    <2> QED BY <1>2, <1>6, <2>1, <2>2 DEF VerifyPlane, EndRecording, HasAnchor, RegistryInv
  <1>7. CASE BeginRecording
    <2>1. /\ orch'.pc = "recording" /\ orch.pc = "verified"
          /\ orch'.checked = orch.checked /\ orch'.anchor = orch.anchor /\ orch'.by = orch.by
      BY <1>0, <1>7 DEF BeginRecording, With, TypeOK, OrchOK, OrchFields
    <2> QED BY <1>2, <1>7, <2>1 DEF BeginRecording, EndRecording, HasAnchor, RegistryInv
  <1>8. CASE Opened
    <2>1. /\ orch'.pc = "open" /\ orch.pc = "recorded"
          /\ orch'.anchor = orch.anchor /\ orch'.by = orch.by
      BY <1>0, <1>8 DEF Opened, With, TypeOK, OrchOK, OrchFields
    <2> QED BY <1>2, <1>8, <2>1 DEF Opened, EndRecording, HasAnchor, RegistryInv
  <1>9. CASE Restart
    BY <1>2, <1>9 DEF Restart, EndRecording, HasAnchor, Closed
  <1>10. ASSUME UNCHANGED <<seen, observed>>, orch'.pc = orch.pc,
                HasAnchor => orch'.anchor = orch.anchor /\ orch'.by = orch.by,
                orch.pc \in {"checked", "admitted", "verified", "recording"} =>
                  orch'.checked = orch.checked
         PROVE  RegistryInv'
    <2>1. ~EndRecording
      <3> SUFFICES ASSUME EndRecording PROVE FALSE
        OBVIOUS
      <3>1. orch.pc = "recording" /\ orch' = [orch EXCEPT !.pc = "recorded"]
        BY DEF EndRecording
      <3> QED BY <1>0, <1>10, <3>1 DEF TypeOK, OrchOK, OrchFields
    <2> QED BY <1>2, <1>10, <2>1 DEF HasAnchor, RegistryInv
  <1>11. CASE Edit
    <2>1. PICK p \in DOMAIN Versions : orch' = (IF orch.pc = "open" THEN orch ELSE Moved(orch, p))
      BY <1>11 DEF Edit
    <2>2. /\ Moved(orch, p).pc = orch.pc
          /\ HasAnchor => Moved(orch, p).anchor = orch.anchor /\ Moved(orch, p).by = orch.by
          /\ orch.pc \in {"checked", "admitted", "verified", "recording"} =>
               Moved(orch, p).checked = orch.checked
      BY <1>0, EditKeeps DEF TypeOK, OrchOK, OrchFields, OrchPcs, HasAnchor
    <2> QED BY <1>10, <1>11, <2>1, <2>2 DEF Edit
  <1>12. CASE Submitting \/ Offering \/ UNCHANGED vars
    BY <1>10, <1>12, SubmittingLeaves, OfferingLeaves DEF vars
  <1> QED BY <1>1, <1>3, <1>4, <1>5, <1>6, <1>7, <1>8, <1>9, <1>11, <1>12, Parties DEF Opening

LEMMA OneEntry ==
  ASSUME NEW reg, parseRegistry(reg), NEW e \in Entries(Registries[reg]),
         NEW f \in Entries(Registries[reg]), e.artifact = f.artifact
  PROVE  e = f
  BY DEF parseRegistry, Entries

LEMMA IdentityFollows == RegistryInv => IdentityIsFinal
  <1> SUFFICES ASSUME RegistryInv, NEW i \in 1 .. Len(seen), NEW j \in 1 .. Len(seen), i < j,
                      \A k \in 1 .. j : OneHistory(seen[k])
               PROVE  /\ CheckAppendOnly(Registries[seen[j].checked], Registries[seen[i].recorded])
                      /\ ~\E e \in Entries(Registries[seen[i].recorded]) :
                            e.artifact = seen[j].anchor /\ e.state = "withdrawn"
                      /\ VerifyAnchorRecord(seen[i].anchor, seen[j].checked)
    BY DEF IdentityIsFinal
  <1> DEFINE a == seen[i]
             b == seen[j]
  <1>1. CheckAppendOnly(Registries[b.checked], Registries[a.recorded])
    BY DEF RegistryInv, Joined
  <1>2. SeenWell(a) /\ SeenWell(b)
    BY DEF RegistryInv
  <1>3. Len(seen) \in Nat
    BY Appended DEF RegistryInv, TypeOK
  <1>4. i \in 1 .. j /\ j \in 1 .. j
    BY <1>3
  <1>5. /\ CheckAppendOnly(Registries[a.recorded], Registries[a.by])
        /\ CheckAppendOnly(Registries[b.by], Registries[b.checked])
    BY <1>4 DEF OneHistory
  <1> HIDE DEF a, b
  <1>6. ASSUME NEW p \in Entries(Registries[a.recorded]), p.artifact = b.anchor,
               p.state = "withdrawn"
        PROVE  FALSE
    <2>1. CheckAppendOnly(Registries[b.by], Registries[a.recorded])
      BY <1>1, <1>5, Transitive
    <2>2. PICK e \in Entries(Registries[b.by]) : e.artifact = b.anchor /\ e.state = "withdrawn"
      BY <1>6, <2>1, Zenon DEF CheckAppendOnly
    <2>3. PICK f \in Entries(Registries[b.by]) : f.artifact = b.anchor /\ f.state # "withdrawn"
      BY <1>2 DEF SeenWell, AdmitAnchor
    <2>4. parseRegistry(b.by)
      BY <1>2 DEF SeenWell, AdmitAnchor, LoadRegistryOf
    <2> QED BY <2>2, <2>3, <2>4, OneEntry
  <1>7. VerifyAnchorRecord(a.anchor, b.checked)
    <2>1. PICK e \in Entries(Registries[a.by]) :
            /\ e.artifact = a.anchor
            /\ Key(e) = <<Anchors[a.anchor].name, Anchors[a.anchor].deployment>>
      BY <1>2 DEF SeenWell, AdmitAnchor
    <2>2. CheckAppendOnly(Registries[b.checked], Registries[a.by])
      BY <1>1, <1>5, Transitive
    <2>3. PICK f \in Entries(Registries[b.checked]) : Key(f) = Key(e) /\ f.artifact = e.artifact
      BY <2>1, <2>2, Zenon DEF CheckAppendOnly
    <2>4. ParseAnchor(a.anchor) /\ LoadRegistryOf(b.checked)
      BY <1>2 DEF SeenWell, AdmitAnchor
    <2> QED BY <2>1, <2>3, <2>4, Zenon DEF VerifyAnchorRecord
  <1> QED BY <1>1, <1>6, <1>7 DEF a, b

\* IdentityIsFinal, whatever the registries, the edits and the number of
\* Opens: what Governance bound to a name and version stays bound to it, and
\* no later Open runs under an anchor that was seen withdrawn.
THEOREM IdentitiesAreFinal == Spec => []IdentityIsFinal
  BY RegistryInit, RegistryStep, IdentityFollows, PTL DEF Spec

(***************************************************************************)
(* What an open orchestrator holds of its anchor.                          *)
(***************************************************************************)

HasCeiling == orch.pc \in {"verified", "recording", "recorded", "open"}

AnchorInv ==
    /\ RegistryInv
    /\ HasCeiling => orch.ceiling = Anchors[orch.anchor].ceiling
    /\ orch.pc \in {"started", "checked", "admitted"} /\ "policy" \notin orch.moved =>
         orch.policy = disk["policy"]
    /\ HasCeiling /\ "policy" \notin orch.moved =>
         orch.policy = Anchors[orch.anchor].pins["policy"]

\* What the plane's verification holds of a label that no anchor may omit.
LEMMA PlaneHolds ==
  ASSUME NEW a, NEW held, verifyAnchoredInstructionPlane(a, held),
         NEW l \in {"instructions", "policy"}, a.pins[l] # "absent"
  PROVE  disk[l] = a.pins[l]
  BY DEF verifyAnchoredInstructionPlane, Plane

LEMMA PinsPresent ==
  ASSUME NEW x, ParseAnchor(x), NEW l \in {"instructions", "policy"}
  PROVE  Anchors[x].pins[l] # "absent"
  BY DEF ParseAnchor, Plane, Optional

LEMMA AnchorStep == AnchorInv /\ [Next]_vars => AnchorInv'
  <1> SUFFICES ASSUME AnchorInv, [Next]_vars PROVE AnchorInv'
    OBVIOUS
  <1>0. TypeOK /\ RegistryInv /\ RegistryInv' /\ OrchOK
    BY RegistryStep DEF AnchorInv, RegistryInv, TypeOK
  <1> USE DEF HasCeiling
  <1>1. CASE Start
    BY <1>0, <1>1 DEF Start, AnchorInv
  <1>2. CASE ReadRegistry
    BY <1>0, <1>2 DEF ReadRegistry, With, Closed, OrchOK, OrchFields, AnchorInv
  <1>3. CASE Admit
    BY <1>0, <1>3 DEF Admit, With, Closed, OrchOK, OrchFields, AnchorInv
  <1>4. CASE VerifyPlane
    <2> DEFINE a == Anchors[orch.anchor]
    <2>1. CASE verifyAnchoredInstructionPlane(a, orch.held) /\ disk["ceiling"] = a.ceiling
               /\ a.ceiling \in DOMAIN Ceilings
      <3>1. /\ orch' = With(orch, [pc |-> "verified", ceiling |-> disk["ceiling"]])
            /\ orch.pc = "admitted" /\ disk' = disk
        BY <1>4, <2>1 DEF VerifyPlane
      <3>2. /\ orch'.pc = "verified" /\ orch'.ceiling = a.ceiling /\ orch'.anchor = orch.anchor
            /\ orch'.moved = orch.moved /\ orch'.policy = orch.policy
        BY <1>0, <2>1, <3>1 DEF With, OrchOK, OrchFields
      <3>3. ParseAnchor(orch.anchor)
        BY <3>1 DEF AnchorInv, RegistryInv, HasAnchor, AdmitAnchor
      <3>4. disk["policy"] = a.pins["policy"]
        BY <2>1, <3>3, PlaneHolds, PinsPresent
      <3> QED BY <1>0, <3>1, <3>2, <3>4 DEF AnchorInv
    <2>2. CASE ~(verifyAnchoredInstructionPlane(a, orch.held) /\ disk["ceiling"] = a.ceiling
                 /\ a.ceiling \in DOMAIN Ceilings)
      BY <1>0, <1>4, <2>2 DEF VerifyPlane, Closed, AnchorInv
    <2> QED BY <2>1, <2>2
  <1>5. CASE BeginRecording
    BY <1>0, <1>5 DEF BeginRecording, With, OrchOK, OrchFields, AnchorInv
  <1>6. CASE EndRecording
    BY <1>0, <1>6 DEF EndRecording, OrchOK, OrchFields, AnchorInv
  <1>7. CASE Opened
    BY <1>0, <1>7 DEF Opened, With, OrchOK, OrchFields, AnchorInv
  <1>8. CASE Restart
    BY <1>0, <1>8 DEF Restart, Closed, AnchorInv
  <1>9. CASE Submitting \/ UNCHANGED vars
    BY <1>0, <1>9, SubmittingLeaves DEF vars, AnchorInv
  <1>10. CASE Offering
    <2>1. orch.pc = "open" /\ orch' = orch
      BY <1>10, OfferingLeaves DEF NoOffer
    <2> QED BY <1>0, <2>1 DEF AnchorInv
  <1>11. CASE Edit
    <2>1. PICK p \in DOMAIN Versions :
            /\ orch' = (IF orch.pc = "open" THEN orch ELSE Moved(orch, p))
            /\ \E c : disk' = [disk EXCEPT ![p] = c]
      BY <1>11 DEF Edit
    <2>2. CASE orch.pc \in {"open", "closed"}
      <3>1. orch' = orch
        BY <1>0, <2>1, <2>2 DEF Moved, OrchOK, OrchFields
      <3> QED BY <1>0, <2>2, <3>1 DEF AnchorInv
    <2>3. CASE orch.pc \notin {"open", "closed"}
      <3>1. /\ orch'.pc = orch.pc /\ orch'.moved = orch.moved \cup {p}
            /\ orch'.policy = orch.policy
            /\ HasCeiling => orch'.ceiling = orch.ceiling /\ orch'.anchor = orch.anchor
        BY <1>0, <2>1, <2>3, EditKeeps DEF OrchOK, OrchFields, OrchPcs
      <3>2. p # "policy" => disk'["policy"] = disk["policy"]
        BY <1>0, <2>1, DeploymentAssumption DEF TypeOK
      <3> QED BY <1>0, <3>1, <3>2 DEF AnchorInv
    <2> QED BY <2>2, <2>3
  <1> QED BY <1>1, <1>2, <1>3, <1>4, <1>5, <1>6, <1>7, <1>8, <1>9, <1>10, <1>11, Parties DEF Opening

(***************************************************************************)
(* The skill of an envelope.                                               *)
(***************************************************************************)

LEMMA OneToSeq ==
  ASSUME NEW x
  PROVE  SetToSeq({x}) # << >> /\ Head(SetToSeq({x})) = x
  <1> DEFINE S == {x}
             Good(f) == f \in [1 .. Cardinality(S) -> S] /\ IsInjective(f)
             s == SetToSeq(S)
  <1>1. Cardinality(S) = 1
    BY FS_Singleton
  <1>2. Good([i \in 1 .. 1 |-> x])
    BY <1>1 DEF IsInjective
  <1>3. s = CHOOSE f : Good(f)
    BY Zenon DEF SetToSeq
  <1>4. Good(s)
    <2> HIDE DEF Good, s
    <2> QED BY <1>2, <1>3, Zenon
  <1>5. s \in [1 .. 1 -> {x}]
    BY <1>1, <1>4
  <1> HIDE DEF s
  <1>6. s # << >> /\ s[1] = x
    BY <1>5
  <1> QED BY <1>6 DEF s

LEMMA NoneToSeq == SetToSeq({}) = << >>
  <1> DEFINE Good(f) == f \in [1 .. Cardinality({}) -> {}] /\ IsInjective(f)
             s == SetToSeq({})
  <1>1. Cardinality({}) = 0 /\ 1 .. 0 = {}
    BY FS_EmptySet
  <1>2. Good(<< >>)
    BY <1>1 DEF IsInjective
  <1>3. s = CHOOSE f : Good(f)
    BY Zenon DEF SetToSeq
  <1>4. Good(s)
    <2> HIDE DEF Good, s
    <2> QED BY <1>2, <1>3, Zenon
  <1>5. s \in [{} -> {}]
    BY <1>1, <1>4
  <1> HIDE DEF s
  <1>6. s = << >>
    BY <1>5
  <1> QED BY <1>6 DEF s

\* The catalog an anchor pins registers one composition under a reference.
LEMMA OneManifest ==
  ASSUME NEW a, NEW env, NEW m \in verifyAnchoredSkill(a, env)
  PROVE  /\ verifyAnchoredSkill(a, env) = {SkillOf(a, env)} /\ disk["catalog"] = a.catalog
         /\ Corresponds(Head(env.composition), SkillOf(a, env))
  <1> DEFINE cat == Catalogs[a.catalog]
             named == Named(cat, env.skill)
             found == Resolve(cat, disk, env.skill)
  <1>1. /\ LoadCatalog(disk["catalog"]) /\ disk["catalog"] = a.catalog
        /\ \A x \in verifyAnchoredSkill(a, env) :
             x \in found /\ Corresponds(Head(env.composition), x)
    BY DEF verifyAnchoredSkill
  <1>2. \A e, f \in named : e = f
    BY <1>1 DEF LoadCatalog, Named, Entries
  <1>3. ASSUME NEW x \in found PROVE x = SkillOf(a, env)
    <2>1. PICK e \in named : e.state = "active" /\ x = Manifests[e.composition]
      BY <1>3 DEF Resolve
    <2>2. (CHOOSE f \in named : f.state = "active") = e
      <3> HIDE DEF named
      <3> QED BY <1>2, <2>1
    <2> QED BY <2>1, <2>2 DEF SkillOf
  <1> HIDE DEF found
  <1> QED BY <1>1, <1>3

(***************************************************************************)
(* What is established of a task, step by step.                            *)
(***************************************************************************)

HasManifest  == task.pc \in {"admitted", "captured", "instance", "provisioned", "resolved", "running"}
HasBodies    == task.pc \in {"captured", "instance", "provisioned", "resolved", "running"}
HasGrant     == task.pc \in {"instance", "provisioned", "resolved", "running"}
HasEffective == task.pc \in {"provisioned", "resolved", "running"}
HasProcedure == task.pc \in {"resolved", "running"}

\* AnchorAdmits: a bundle, the tools, the ceiling and a model of the anchor,
\* and the registered composition of a skill that it names.
Deploys(a, env, read, manifest, catalog) ==
    /\ \E b \in a.bundles : /\ b.workflow = read["workflow"]
                            /\ b.ceiling = read["workflow_ceiling"]
                            /\ b.contract = read["context_contract"]
    /\ read["registry"] = a.registry /\ read["ceiling"] = a.ceiling /\ env.model \in a.models
    /\ env.skill = << >> => env.procedure = << >> /\ manifest = << >>
    /\ env.skill # << >> =>
         /\ env.skill \in a.skills /\ catalog = a.catalog
         /\ manifest # << >> /\ Head(manifest) = SkillOf(a, env)
         /\ Corresponds(Head(env.composition), SkillOf(a, env))

\* CheckInstance: the two files are of the templates the manifest pins.
IsInstance(env, manifest, grant, spec) ==
    manifest # << >> =>
        /\ Instantiates(Decoded(grant), Decoded(Head(manifest).pins["grant_template"].sha), env.task)
        /\ SpecInstantiates(spec, Head(manifest).pins["spec_template"].sha)

\* resolveTaskEIS: the procedure that is delivered is the one committed to.
IsCommitted(env, procedure) ==
    /\ env.procedure = << >> => procedure = << >>
    /\ env.procedure # << >> =>
         procedure = <<Head(procedure)>> /\ Commits(env, "procedure", Head(procedure))

TaskInv ==
    /\ task.pc \notin {"none", "refused"} => EnvelopeLoads(task.env)
    /\ HasManifest =>
         Deploys(Anchors[orch.anchor], task.env, task.read, task.manifest, task.catalog)
    /\ HasManifest /\ ~HasProcedure /\ "instructions" \notin task.moved =>
         disk["instructions"] = Anchors[orch.anchor].pins["instructions"]
    /\ HasBodies => \A l \in Captured : /\ task.bodies[l] = task.read[l]
                                        /\ Commits(task.env, l, task.read[l])
    /\ HasGrant => IsInstance(task.env, task.manifest, task.grant, task.read["spec"])
    /\ HasEffective => task.effective = Bound(task.grant)
    /\ HasProcedure =>
         /\ IsCommitted(task.env, task.procedure)
         /\ "instructions" \notin task.moved =>
              task.eis = Anchors[orch.anchor].pins["instructions"]
    /\ task.pc = "running" =>
         LET r == Head(record) IN
         /\ r.bodies = task.bodies /\ r.anchor = orch.anchor /\ r.grant = task.grant
         /\ r.procedure = task.procedure /\ r.manifest = task.manifest
         /\ r.catalog = task.catalog /\ r.eis = task.eis /\ r.effective = task.effective

\* Nothing is asked of a task that was refused.
LEMMA RefusedHolds ==
  ASSUME task' = Refused
  PROVE  TaskInv'
  BY DEF Refused, TaskInv, HasManifest, HasBodies, HasGrant, HasEffective, HasProcedure

LEMMA SubmitHolds ==
  ASSUME TaskOK, TaskInv, Submit
  PROVE  TaskInv'
  <1> DEFINE env == Head(offer).env
             read == [l \in Loaded |-> disk[PathOf(env, l)]]
             next == [pc |-> "loaded", env |-> env, read |-> read, moved |-> {}]
  <1>1. (task' = next /\ EnvelopeLoads(env)) \/ task' = Refused
    BY Zenon DEF Submit, Advance
  <1>2. next.pc = "loaded" /\ next.env = env
    OBVIOUS
  <1> HIDE DEF next, env
  <1>3. CASE task' = next /\ EnvelopeLoads(env)
    BY <1>2, <1>3 DEF TaskInv, HasManifest, HasBodies, HasGrant, HasEffective, HasProcedure
  <1> QED BY <1>1, <1>3, RefusedHolds

LEMMA AnchorAdmitsHolds ==
  ASSUME AnchorInv, TaskInv, AnchorAdmits
  PROVE  TaskInv'
  <1> DEFINE a == Anchors[orch.anchor]
             env == task.env
             read == task.read
             skilled == env.skill # << >>
             found == IF skilled THEN verifyAnchoredSkill(a, env) ELSE {}
             next == With(task, [pc |-> "admitted", manifest |-> SetToSeq(found),
                                 catalog |-> disk["catalog"]])
             Ok == /\ verifyAnchoredInstructionPlane(a, orch.held)
                   /\ skilled => env.skill \in a.skills
                   /\ read["registry"] = a.registry
                   /\ read["ceiling"] = orch.ceiling
                   /\ \E b \in a.bundles : /\ b.workflow = read["workflow"]
                                           /\ b.ceiling = read["workflow_ceiling"]
                                           /\ b.contract = read["context_contract"]
                   /\ skilled \/ env.procedure = << >>
                   /\ skilled => found # {}
                   /\ env.model \in a.models
  <1>1. /\ task.pc = "loaded" /\ UNCHANGED <<disk, orch>>
        /\ task' = IF Ok THEN next ELSE Refused
    BY Zenon DEF AnchorAdmits, Advance
  <1>2. CASE ~Ok
    <2>1. task' = Refused
      BY <1>1, <1>2, Zenon
    <2> QED BY <2>1, RefusedHolds
  <1>3. CASE Ok
    <2>0. orch.pc = "open" /\ TaskOK /\ ParseAnchor(orch.anchor)
      <3>1. orch.pc = "open" /\ TaskOK
        BY <1>1 DEF AnchorInv, RegistryInv, TypeOK, PhaseOK
      <3> QED BY <3>1 DEF AnchorInv, RegistryInv, HasAnchor, AdmitAnchor
    <2>1. /\ task'.pc = "admitted" /\ task'.env = env /\ task'.read = read
          /\ task'.manifest = SetToSeq(found) /\ task'.catalog = disk["catalog"]
          /\ task'.moved = task.moved
      BY <1>1, <1>3, <2>0 DEF With, TaskOK, TaskFields
    <2>2. EnvelopeLoads(env)
      BY <1>1 DEF TaskInv
    <2>3. disk["instructions"] = a.pins["instructions"]
      BY <1>3, <2>0, PlaneHolds, PinsPresent
    <2>4. read["ceiling"] = a.ceiling
      BY <1>3, <2>0 DEF AnchorInv, HasCeiling
    <2>5. CASE ~skilled
      <3>1. task'.manifest = << >>
        BY <2>1, <2>5, NoneToSeq
      <3>2. Deploys(a, env, read, task'.manifest, task'.catalog)
        BY <1>3, <2>4, <2>5, <3>1 DEF Deploys
      <3> QED BY <1>1, <2>1, <2>2, <2>3, <3>2 DEF TaskInv, HasManifest, HasBodies, HasGrant, HasEffective,
                                      HasProcedure
    <2>6. CASE skilled
      <3>1. PICK m \in verifyAnchoredSkill(a, env) : TRUE
        BY <1>3, <2>6
      <3>2. /\ verifyAnchoredSkill(a, env) = {SkillOf(a, env)} /\ disk["catalog"] = a.catalog
            /\ Corresponds(Head(env.composition), SkillOf(a, env))
        BY <3>1, OneManifest
      <3>3. task'.manifest # << >> /\ Head(task'.manifest) = SkillOf(a, env)
        BY <2>1, <2>6, <3>2, OneToSeq
      <3>4. Deploys(a, env, read, task'.manifest, task'.catalog)
        BY <1>3, <2>1, <2>4, <2>6, <3>2, <3>3 DEF Deploys
      <3> QED BY <1>1, <2>1, <2>2, <2>3, <3>4 DEF TaskInv, HasManifest, HasBodies, HasGrant, HasEffective,
                                      HasProcedure
    <2> QED BY <2>5, <2>6
  <1> QED BY <1>2, <1>3

LEMMA CaptureHolds ==
  ASSUME TypeOK, TaskInv, Capture
  PROVE  TaskInv'
  <1> DEFINE env == task.env
             read == task.read
             body == [l \in Captured |-> disk[PathOf(env, l)]]
             next == With(task, [pc |-> "captured", bodies |-> body])
             Ok == /\ \A l \in Captured : captureVerified(read, l, body[l])
                   /\ \A l \in Captured : Commits(env, l, read[l])
                   /\ Contracts[read["context_contract"]].workflow = Workflows[read["workflow"]].name
                   /\ Assembles(ToolRegistries[read["registry"]], Workflows[read["workflow"]])
  <1>1. /\ task.pc = "admitted" /\ UNCHANGED <<disk, orch>>
        /\ task' = IF Ok THEN next ELSE Refused
    BY Zenon DEF Capture, Advance
  <1>2. CASE ~Ok
    <2>1. task' = Refused
      BY <1>1, <1>2, Zenon
    <2> QED BY <2>1, RefusedHolds
  <1>3. CASE Ok
    <2>1. /\ task'.pc = "captured" /\ task'.bodies = body
          /\ task'.env = env /\ task'.read = read /\ task'.manifest = task.manifest
          /\ task'.catalog = task.catalog /\ task'.moved = task.moved
      BY <1>1, <1>3 DEF With, TypeOK, TaskOK, TaskFields
    <2>2. \A l \in Captured : body[l] = read[l] /\ Commits(env, l, read[l])
      BY <1>3 DEF captureVerified
    <2> HIDE DEF body
    <2> QED BY <1>1, <2>1, <2>2 DEF TaskInv, HasManifest, HasBodies, HasGrant, HasEffective,
                                    HasProcedure
  <1> QED BY <1>2, <1>3

LEMMA CheckInstanceHolds ==
  ASSUME TypeOK, TaskInv, CheckInstance
  PROVE  TaskInv'
  <1> DEFINE env == task.env
             grant == disk["grant"]
             spec == task.read["spec"]
             Template(member) == Head(task.manifest).pins[member].sha
             next == With(task, [pc |-> "instance", grant |-> grant])
             Ok == /\ Commits(env, "grant", grant)
                   /\ task.manifest # << >> =>
                        /\ PinHolds(Head(task.manifest), disk, "grant_template")
                        /\ Instantiates(Decoded(grant), Decoded(Template("grant_template")), env.task)
                        /\ PinHolds(Head(task.manifest), disk, "spec_template")
                        /\ SpecInstantiates(spec, Template("spec_template"))
                   /\ spec.task = env.task
  <1>1. /\ task.pc = "captured" /\ UNCHANGED <<disk, orch>>
        /\ task' = IF Ok THEN next ELSE Refused
    BY Zenon DEF CheckInstance, Advance
  <1>2. CASE ~Ok
    <2>1. task' = Refused
      BY <1>1, <1>2, Zenon
    <2> QED BY <2>1, RefusedHolds
  <1>3. CASE Ok
    <2>1. /\ task'.pc = "instance" /\ task'.grant = grant /\ task'.bodies = task.bodies
          /\ task'.env = env /\ task'.read = task.read /\ task'.manifest = task.manifest
          /\ task'.catalog = task.catalog /\ task'.moved = task.moved
      BY <1>1, <1>3 DEF With, TypeOK, TaskOK, TaskFields
    <2>2. IsInstance(env, task.manifest, grant, spec)
      BY <1>3, Zenon DEF IsInstance
    <2> HIDE DEF grant
    <2> QED BY <1>1, <2>1, <2>2 DEF TaskInv, HasManifest, HasBodies, HasGrant, HasEffective,
                                    HasProcedure
  <1> QED BY <1>2, <1>3

LEMMA ProvisionHolds ==
  ASSUME TypeOK, TaskInv, Provision
  PROVE  TaskInv'
  <1> DEFINE grant == Bound(task.grant)
             next == With(task, [pc |-> "provisioned", effective |-> grant])
             Ok == /\ ValidateAgainst(task.read["spec"], Ceilings[task.read["ceiling"]])
                   /\ BindsWorkspace(task.grant) /\ LoadGrant(grant)
                   /\ grant.task = task.env.task
                   /\ grantWithinCeiling(grant, WorkflowCeilings[task.read["workflow_ceiling"]])
                   /\ TemplatesRegistered(grant)
  <1>1. /\ task.pc = "instance" /\ UNCHANGED <<disk, orch>>
        /\ task' = IF Ok THEN next ELSE Refused
    BY Zenon DEF Provision, Advance
  <1>2. CASE ~Ok
    <2>1. task' = Refused
      BY <1>1, <1>2, Zenon
    <2> QED BY <2>1, RefusedHolds
  <1>3. CASE Ok
    <2>0. task' = next
      BY <1>1, <1>3, Zenon
    <2> HIDE DEF grant
    <2>1. /\ task'.pc = "provisioned" /\ task'.effective = grant
          /\ task'.grant = task.grant /\ task'.bodies = task.bodies
          /\ task'.env = task.env /\ task'.read = task.read /\ task'.manifest = task.manifest
          /\ task'.catalog = task.catalog /\ task'.moved = task.moved
      BY <1>1, <2>0 DEF With, TypeOK, TaskOK, TaskFields
    <2>2. task'.effective = Bound(task'.grant)
      BY <2>1 DEF grant
    <2> QED BY <1>1, <2>1, <2>2 DEF TaskInv, HasManifest, HasBodies, HasGrant, HasEffective,
                                    HasProcedure
  <1> QED BY <1>2, <1>3

LEMMA ResolveHolds ==
  ASSUME TypeOK, TaskInv, resolveTaskEIS
  PROVE  TaskInv'
  <1> DEFINE env == task.env
             path == disk[PathOf(env, "procedure")]
             proc == IF env.procedure = << >> THEN << >> ELSE <<path>>
             next == With(task, [pc |-> "resolved", procedure |-> proc, eis |-> disk["instructions"]])
             Ok == proc # << >> => Commits(env, "procedure", Head(proc)) /\ proc = env.procedure
  <1>1. /\ task.pc = "provisioned" /\ UNCHANGED <<disk, orch>>
        /\ task' = IF Ok THEN next ELSE Refused
    BY Zenon DEF resolveTaskEIS, Advance
  <1>2. CASE ~Ok
    <2>1. task' = Refused
      BY <1>1, <1>2, Zenon
    <2> QED BY <2>1, RefusedHolds
  <1>3. CASE Ok
    <2>0. task' = next
      BY <1>1, <1>3, Zenon
    <2>1. IsCommitted(env, proc)
      <3>1. CASE env.procedure = << >>
        BY <3>1 DEF IsCommitted
      <3>2. CASE env.procedure # << >>
        <4> HIDE DEF path
        <4>1. proc = <<path>> /\ proc # << >> /\ Head(proc) = path
          BY <3>2
        <4>2. Commits(env, "procedure", Head(proc))
          BY <1>3, <4>1, Zenon
        <4> HIDE DEF proc
        <4>3. proc = <<Head(proc)>>
          BY <4>1, Zenon
        <4> QED BY <3>2, <4>2, <4>3, Zenon DEF IsCommitted
      <3> QED BY <3>1, <3>2
    <2> HIDE DEF proc
    <2>2. /\ task'.pc = "resolved" /\ task'.procedure = proc /\ task'.eis = disk["instructions"]
          /\ task'.effective = task.effective /\ task'.grant = task.grant
          /\ task'.bodies = task.bodies /\ task'.env = env /\ task'.read = task.read
          /\ task'.manifest = task.manifest /\ task'.catalog = task.catalog
          /\ task'.moved = task.moved
      BY <1>1, <2>0 DEF With, TypeOK, TaskOK, TaskFields
    <2> QED BY <1>1, <2>1, <2>2 DEF TaskInv, HasManifest, HasBodies, HasGrant, HasEffective,
                                    HasProcedure
  <1> QED BY <1>2, <1>3

LEMMA CreateTaskHolds ==
  ASSUME TypeOK, TaskInv, CreateTask
  PROVE  TaskInv'
  <1> DEFINE r == recordMaterializedArtifacts
  <1>1. /\ task.pc = "resolved" /\ record' = <<r>> /\ UNCHANGED <<disk, orch>>
        /\ task' = [task EXCEPT !.pc = "running"]
    BY DEF CreateTask
  <1>2. /\ r.bodies = task.bodies /\ r.anchor = orch.anchor /\ r.grant = task.grant
        /\ r.procedure = task.procedure /\ r.manifest = task.manifest
        /\ r.catalog = task.catalog /\ r.eis = task.eis /\ r.effective = task.effective
    BY DEF recordMaterializedArtifacts
  <1>3. /\ task'.pc = "running" /\ task'.procedure = task.procedure /\ task'.eis = task.eis
        /\ task'.effective = task.effective /\ task'.grant = task.grant
        /\ task'.bodies = task.bodies /\ task'.env = task.env /\ task'.read = task.read
        /\ task'.manifest = task.manifest /\ task'.catalog = task.catalog
        /\ task'.moved = task.moved
    BY <1>1 DEF TypeOK, TaskOK, TaskFields
  <1> HIDE DEF r
  <1>4. Head(record') = r
    BY <1>1
  <1> QED BY <1>1, <1>2, <1>3, <1>4 DEF TaskInv, HasManifest, HasBodies, HasGrant, HasEffective,
                                        HasProcedure

\* What no step of SubmitTask did, it finds as it was, but for what moved.
LEMMA OthersKeep ==
  ASSUME TypeOK, TypeOK', TaskInv, record' = record, task'.pc = task.pc,
         \A f \in DOMAIN task \ {"moved"} : task'[f] = task[f],
         task.pc \notin {"none", "refused"} =>
            /\ orch'.anchor = orch.anchor
            /\ task.moved \subseteq task'.moved
            /\ "instructions" \notin task'.moved => disk'["instructions"] = disk["instructions"]
  PROVE  TaskInv'
  <1>1. CASE task.pc \in {"none", "refused"}
    BY <1>1 DEF TaskInv, HasManifest, HasBodies, HasGrant, HasEffective, HasProcedure
  <1>2. CASE task.pc \notin {"none", "refused"}
    <2>1. /\ task'.env = task.env /\ task'.read = task.read
          /\ HasManifest => task'.manifest = task.manifest /\ task'.catalog = task.catalog
          /\ HasBodies => task'.bodies = task.bodies
          /\ HasGrant => task'.grant = task.grant
          /\ HasEffective => task'.effective = task.effective
          /\ HasProcedure => task'.procedure = task.procedure /\ task'.eis = task.eis
      BY <1>2 DEF TypeOK, TaskOK, TaskFields, HasManifest, HasBodies, HasGrant, HasEffective,
                  HasProcedure
    <2> QED BY <1>2, <2>1 DEF TaskInv, HasManifest, HasBodies, HasGrant, HasEffective, HasProcedure
  <1> QED BY <1>1, <1>2

LEMMA TaskInvStep ==
  ASSUME AnchorInv, TaskInv, [Next]_vars
  PROVE  TaskInv'
  <1>0. TypeOK /\ TypeOK' /\ TaskOK /\ PhaseOK
    BY TypeStep DEF AnchorInv, RegistryInv, TypeOK
  <1>1. CASE Submitting
    BY <1>0, <1>1, SubmitHolds, AnchorAdmitsHolds, CaptureHolds, CheckInstanceHolds,
       ProvisionHolds, ResolveHolds, CreateTaskHolds DEF Submitting
  <1>2. CASE Opening
    <2>1. offer = << >> /\ UNCHANGED <<disk, task, record>>
      BY <1>0, <1>2, OpeningLeaves DEF PhaseOK
    <2>2. task.pc = "none"
      BY <1>0, <2>1 DEF PhaseOK
    <2> QED BY <1>0, <2>1, <2>2, OthersKeep
  <1>3. CASE Offering
    <2>1. UNCHANGED <<orch, task, record>> /\ task.pc = "none"
      BY <1>0, <1>3, OfferingLeaves DEF NoOffer, PhaseOK
    <2> QED BY <1>0, <2>1, OthersKeep
  <1>4. CASE Edit
    <2>1. PICK p \in DOMAIN Versions :
            /\ orch' = (IF orch.pc = "open" THEN orch ELSE Moved(orch, p)) /\ task' = Moved(task, p)
            /\ \E c : disk' = [disk EXCEPT ![p] = c]
      BY <1>4 DEF Edit
    <2>2. /\ DOMAIN task' = DOMAIN task /\ \A f \in DOMAIN task \ {"moved"} : task'[f] = task[f]
          /\ "moved" \in DOMAIN task => task'.moved = task.moved \cup {p}
      BY <1>0, <2>1, EditKeeps DEF TaskOK, TaskFields, TaskPcs
    <2>3. task'.pc = task.pc
      BY <1>0, <2>2 DEF TaskOK, TaskFields
    <2>4. ASSUME task.pc \notin {"none", "refused"}
          PROVE  /\ orch'.anchor = orch.anchor /\ task.moved \subseteq task'.moved
                 /\ "instructions" \notin task'.moved => disk'["instructions"] = disk["instructions"]
      <3>1. orch' = orch
        BY <1>0, <2>1, <2>4 DEF PhaseOK
      <3>2. task'.moved = task.moved \cup {p}
        BY <1>0, <2>2, <2>4 DEF TaskOK, TaskFields
      <3>3. p # "instructions" => disk'["instructions"] = disk["instructions"]
        BY <1>0, <2>1, DeploymentAssumption DEF TypeOK
      <3> QED BY <3>1, <3>2, <3>3
    <2>5. record' = record
      BY <1>4 DEF Edit
    <2> QED BY <1>0, <2>2, <2>3, <2>4, <2>5, OthersKeep
  <1>5. CASE UNCHANGED vars
    BY <1>0, <1>5, OthersKeep DEF vars
  <1> QED BY <1>1, <1>2, <1>3, <1>4, <1>5, Parties

(***************************************************************************)
(* What runs is the deployment, and the record says so.                    *)
(***************************************************************************)

LEMMA AnchorInit == Init => AnchorInv
  <1> SUFFICES ASSUME Init PROVE AnchorInv
    OBVIOUS
  <1>1. orch.pc = "closed"
    BY DEF Init, Closed
  <1> QED BY <1>1, RegistryInit DEF AnchorInv, HasCeiling

LEMMA TaskInit == Init => TaskInv
  <1> SUFFICES ASSUME Init PROVE TaskInv
    OBVIOUS
  <1>1. task.pc = "none"
    BY DEF Init, NoTask
  <1> QED BY <1>1 DEF TaskInv, HasManifest, HasBodies, HasGrant, HasEffective, HasProcedure

\* A skill's envelope commits to the procedure it delivers.
LEMMA SkilledCommits ==
  ASSUME NEW env, EnvelopeLoads(env), env.skill # << >>, NEW m,
         Corresponds(Head(env.composition), m)
  PROVE  /\ env.composition # << >> /\ env.procedure # << >>
         /\ \A l \in Members : Head(env.composition).fields[l] = m.pins[l].sha
  <1>1. /\ env.composition # << >>
        /\ ("procedure" \in DOMAIN Head(env.composition).fields) = (env.procedure # << >>)
    BY DEF EnvelopeLoads
  <1>2. "procedure" \in DOMAIN Head(env.composition).fields
    BY DEF Corresponds, Members
  <1> QED BY <1>1, <1>2 DEF Corresponds

LEMMA DeploymentFollows == AnchorInv /\ TaskInv => ExecutesTheDeployment
  <1> SUFFICES ASSUME AnchorInv, TaskInv, task.pc = "running" PROVE ExecutesTheDeployment
    BY DEF ExecutesTheDeployment
  <1> DEFINE a == Anchors[orch.anchor]
             env == task.env
             read == task.read
             m == SkillOf(a, env)
  <1>1. orch.pc = "open"
    BY DEF AnchorInv, RegistryInv, TypeOK, PhaseOK
  <1>2. /\ EnvelopeLoads(env) /\ Deploys(a, env, read, task.manifest, task.catalog)
        /\ \A l \in Captured : Commits(env, l, read[l])
        /\ IsInstance(env, task.manifest, task.grant, read["spec"])
        /\ IsCommitted(env, task.procedure)
        /\ "instructions" \notin task.moved => task.eis = a.pins["instructions"]
    BY DEF TaskInv, HasManifest, HasBodies, HasGrant, HasProcedure
  <1>3. "policy" \notin orch.moved => orch.policy = a.pins["policy"]
    BY <1>1 DEF AnchorInv, HasCeiling
  <1>4. CASE env.skill = << >>
    <2>1. task.procedure = << >>
      BY <1>2, <1>4 DEF Deploys, IsCommitted
    <2> QED BY <1>2, <1>3, <1>4, <2>1 DEF ExecutesTheDeployment, Deploys
  <1>5. CASE env.skill # << >>
    <2>1. /\ env.skill \in a.skills /\ task.manifest # << >> /\ Head(task.manifest) = m
          /\ Corresponds(Head(env.composition), m)
      BY <1>2, <1>5 DEF Deploys
    <2> HIDE DEF m
    <2>2. /\ env.composition # << >> /\ env.procedure # << >>
          /\ \A l \in Members : Head(env.composition).fields[l] = m.pins[l].sha
      BY <1>2, <1>5, <2>1, SkilledCommits
    <2>3. \A l \in Captured \ {"spec"} : read[l] = m.pins[l].sha
      BY <1>2, <2>2 DEF Commits, Captured, Members
    <2>4. task.procedure = <<m.pins["procedure"].sha>>
      BY <1>2, <2>2 DEF IsCommitted, Commits, Members
    <2>5. /\ Instantiates(Decoded(task.grant), Decoded(m.pins["grant_template"].sha), env.task)
          /\ SpecInstantiates(read["spec"], m.pins["spec_template"].sha)
      BY <1>2, <2>1 DEF IsInstance
    <2> QED BY <1>2, <1>3, <1>5, <2>1, <2>3, <2>4, <2>5 DEF ExecutesTheDeployment, Deploys, m
  <1> QED BY <1>4, <1>5

\* ExecutesTheDeployment, whatever an envelope claims and whichever files are
\* rewritten between any two of the reads of Open and of SubmitTask: a
\* running task is of the anchor's bundles, tools, ceiling and models, and
\* a skill's task is the composition that the anchored catalog registers.
THEOREM TasksExecuteTheDeployment == Spec => []ExecutesTheDeployment
  BY AnchorInit, AnchorStep, TaskInit, TaskInvStep, DeploymentFollows, PTL DEF Spec

LEMMA RecordFollows == AnchorInv /\ TaskInv => RecordHoldsWhatExecutes
  <1> SUFFICES ASSUME AnchorInv, TaskInv, task.pc = "running" PROVE RecordHoldsWhatExecutes
    BY DEF RecordHoldsWhatExecutes
  <1> DEFINE r == Head(record)
  <1>1. ParseAnchor(orch.anchor)
    BY DEF AnchorInv, RegistryInv, TypeOK, PhaseOK, HasAnchor, AdmitAnchor
  <1>2. /\ r.bodies = task.bodies /\ r.anchor = orch.anchor /\ r.grant = task.grant
        /\ r.procedure = task.procedure /\ r.manifest = task.manifest
        /\ r.catalog = task.catalog /\ r.eis = task.eis /\ r.effective = task.effective
    BY DEF TaskInv
  <1>3. /\ \A l \in Captured : task.bodies[l] = task.read[l]
        /\ task.effective = Bound(task.grant)
        /\ task.manifest # << >> => task.catalog = Anchors[orch.anchor].catalog
    BY DEF TaskInv, HasBodies, HasEffective, HasManifest, Deploys
  <1> HIDE DEF r
  <1> QED BY <1>1, <1>2, <1>3 DEF RecordHoldsWhatExecutes, r

\* RecordHoldsWhatExecutes, under the same interleavings: the durable record
\* of a running task holds the bytes it runs, an anchor that parses, and the
\* catalog that anchor pins whenever a composition was resolved from one.
THEOREM RecordsHoldWhatExecutes == Spec => []RecordHoldsWhatExecutes
  BY AnchorInit, AnchorStep, TaskInit, TaskInvStep, RecordFollows, PTL DEF Spec

(***************************************************************************)
(* What L9 emits.  The size of a payload is a sum, folded over the inputs  *)
(* in an order that CHOOSE picks: one exists and is a number, by induction *)
(* on how many inputs there are.                                           *)
(***************************************************************************)

Less == {ss \in Nat \X Nat : ss[1] < ss[2]}

LEMMA LessIsWellFounded == IsWellFoundedOn(Less, Nat)
  BY NatLessThanWellFounded, Zenon DEF OpToRel, Less

\* Induction, for the members of a set instead of a predicate.
LEMMA UpTo ==
  ASSUME NEW n \in Nat, NEW S, 0 \in S, \A k \in Nat : k < n /\ k \in S => k + 1 \in S
  PROVE  n \in S
  <1> DEFINE T == {k \in Nat : k <= n /\ k \notin S}
  <1> SUFFICES ASSUME T # {} PROVE FALSE
    OBVIOUS
  <1>1. PICK x \in T : \A y \in T : ~(<<y, x>> \in Less)
    <2>1. T \subseteq Nat
      OBVIOUS
    <2> QED BY <2>1, LessIsWellFounded, WFMin, Zenon
  <1>2. \A y \in T : ~(y < x)
    BY <1>1 DEF Less
  <1>3. x # 0 /\ x - 1 \in Nat /\ x - 1 < n /\ x - 1 < x
    BY <1>1
  <1>4. x - 1 \in S
    BY <1>2, <1>3
  <1>5. (x - 1) + 1 \in S
    BY <1>3, <1>4
  <1> QED BY <1>1, <1>5

AnyOf(s) == CHOOSE x \in s : TRUE

SumStep(it, inputs, s) ==
    IF s = {} THEN 0 ELSE inputs[AnyOf(s)].len + it[s \ {AnyOf(s)}]

\* it sums the lengths of the sets of at most k inputs.
Sums(it, inputs, k) ==
    LET D == {s \in SUBSET DOMAIN inputs : Cardinality(s) <= k} IN
    it \in [D -> Nat] /\ \A s \in D : it[s] = SumStep(it, inputs, s)

SumIter(it, inputs) == it = [s \in SUBSET DOMAIN inputs |-> SumStep(it, inputs, s)]

Inputs(inputs) ==
    IsFiniteSet(DOMAIN inputs) /\ \A n \in DOMAIN inputs : inputs[n].len \in Nat

LEMMA OneFewer ==
  ASSUME NEW inputs, Inputs(inputs), NEW s \in SUBSET DOMAIN inputs, s # {}
  PROVE  /\ AnyOf(s) \in s /\ inputs[AnyOf(s)].len \in Nat
         /\ s \ {AnyOf(s)} \in SUBSET DOMAIN inputs
         /\ Cardinality(s) \in Nat /\ Cardinality(s \ {AnyOf(s)}) = Cardinality(s) - 1
  <1>1. AnyOf(s) \in s
    BY DEF AnyOf
  <1>2. IsFiniteSet(s)
    BY FS_Subset DEF Inputs
  <1>3. Cardinality(s) \in Nat /\ Cardinality(s \ {AnyOf(s)}) = Cardinality(s) - 1
    BY <1>1, <1>2, FS_CardinalityType, FS_RemoveElement
  <1> QED BY <1>1, <1>3 DEF Inputs

LEMMA SumsOneMore ==
  ASSUME NEW inputs, Inputs(inputs), NEW k \in Nat, NEW it, Sums(it, inputs, k)
  PROVE  \E ext : Sums(ext, inputs, k + 1)
  <1> DEFINE D(n) == {s \in SUBSET DOMAIN inputs : Cardinality(s) <= n}
             ext == [s \in D(k + 1) |-> SumStep(it, inputs, s)]
  <1>1. it \in [D(k) -> Nat] /\ \A s \in D(k) : it[s] = SumStep(it, inputs, s)
    BY DEF Sums
  <1>2. ASSUME NEW s \in D(k + 1), s # {} PROVE s \ {AnyOf(s)} \in D(k)
    BY <1>2, OneFewer
  <1>3. \A s \in D(k) : s \in D(k + 1)
    <2> TAKE s \in D(k)
    <2>1. Cardinality(s) \in Nat
      BY FS_Subset, FS_CardinalityType DEF Inputs
    <2> QED BY <2>1
  <1>4. ASSUME NEW s \in D(k + 1) PROVE SumStep(it, inputs, s) \in Nat
    <2>1. CASE s = {}
      BY <2>1 DEF SumStep
    <2>2. CASE s # {}
      <3>1. it[s \ {AnyOf(s)}] \in Nat
        BY <1>1, <1>2, <2>2
      <3>2. inputs[AnyOf(s)].len \in Nat
        BY <2>2, OneFewer
      <3> QED BY <2>2, <3>1, <3>2 DEF SumStep
    <2> QED BY <2>1, <2>2
  <1>5. \A s \in D(k) : ext[s] = it[s]
    BY <1>1, <1>3
  <1>6. ASSUME NEW s \in D(k + 1) PROVE ext[s] = SumStep(ext, inputs, s)
    <2>1. CASE s = {}
      BY <2>1 DEF SumStep
    <2>2. CASE s # {}
      <3>1. ext[s \ {AnyOf(s)}] = it[s \ {AnyOf(s)}]
        BY <1>2, <1>5, <2>2
      <3>2. ext[s] = SumStep(it, inputs, s)
        OBVIOUS
      <3> HIDE DEF ext
      <3> QED BY <2>2, <3>1, <3>2 DEF SumStep
    <2> QED BY <2>1, <2>2
  <1>7. ext \in [D(k + 1) -> Nat]
    BY <1>4
  <1> HIDE DEF ext
  <1>8. Sums(ext, inputs, k + 1)
    BY <1>6, <1>7 DEF Sums
  <1> QED BY <1>8

LEMMA SumIterExists ==
  ASSUME NEW inputs, Inputs(inputs)
  PROVE  \E it : SumIter(it, inputs)
  <1> DEFINE n == Cardinality(DOMAIN inputs)
             S == {k \in Nat : \E it : Sums(it, inputs, k)}
  <1>1. n \in Nat /\ \A s \in SUBSET DOMAIN inputs : Cardinality(s) <= n
    BY FS_CardinalityType, FS_Subset DEF Inputs
  <1>2. 0 \in S
    <2> DEFINE D == {s \in SUBSET DOMAIN inputs : Cardinality(s) <= 0}
               it == [s \in D |-> 0]
    <2>1. \A s \in D : s = {}
      BY FS_EmptySet, FS_Subset, FS_CardinalityType DEF Inputs
    <2>2. \A s \in D : it[s] = SumStep(it, inputs, s)
      BY <2>1 DEF SumStep
    <2>3. it \in [D -> Nat]
      OBVIOUS
    <2> HIDE DEF it
    <2>4. Sums(it, inputs, 0)
      BY <2>2, <2>3 DEF Sums
    <2> QED BY <2>4
  <1>3. \A k \in Nat : k < n /\ k \in S => k + 1 \in S
    BY SumsOneMore
  <1>4. n \in S
    <2> HIDE DEF S, n
    <2> QED BY <1>1, <1>2, <1>3, UpTo
  <1>5. PICK it : Sums(it, inputs, n)
    BY <1>4
  <1>6. {s \in SUBSET DOMAIN inputs : Cardinality(s) <= n} = SUBSET DOMAIN inputs
    BY <1>1
  <1> HIDE DEF n
  <1>7. SumIter(it, inputs)
    BY <1>5, <1>6 DEF Sums, SumIter
  <1> QED BY <1>7

LEMMA SizeIsNumber ==
  ASSUME NEW inputs, Inputs(inputs)
  PROVE  PayloadSize(inputs) \in Nat
  <1> DEFINE iter == CHOOSE it : SumIter(it, inputs)
             n == Cardinality(DOMAIN inputs)
             S == {k \in Nat : \A s \in SUBSET DOMAIN inputs : Cardinality(s) <= k => iter[s] \in Nat}
  <1>1. SumIter(iter, inputs)
    BY SumIterExists
  <1>2. PayloadSize(inputs) = iter[DOMAIN inputs]
    BY Zenon DEF PayloadSize, MapThenSumSet, MapThenFoldSet, SumIter, SumStep, AnyOf
  <1> HIDE DEF iter
  <1>3. \A s \in SUBSET DOMAIN inputs : iter[s] = SumStep(iter, inputs, s)
    BY <1>1 DEF SumIter
  <1>4. iter[{}] = 0
    BY <1>3 DEF SumStep
  <1>5. 0 \in S
    <2>1. \A s \in SUBSET DOMAIN inputs : Cardinality(s) <= 0 => s = {}
      BY FS_EmptySet, FS_Subset, FS_CardinalityType DEF Inputs
    <2> QED BY <1>4, <2>1
  <1>6. ASSUME NEW k \in Nat, k \in S, NEW s \in SUBSET DOMAIN inputs, Cardinality(s) <= k + 1
        PROVE  iter[s] \in Nat
    <2>1. CASE s # {}
      <3>1. iter[s \ {AnyOf(s)}] \in Nat
        BY <1>6, <2>1, OneFewer
      <3>2. inputs[AnyOf(s)].len \in Nat
        BY <2>1, OneFewer
      <3> QED BY <1>3, <2>1, <3>1, <3>2 DEF SumStep
    <2> QED BY <1>4, <2>1
  <1>7. \A k \in Nat : k < n /\ k \in S => k + 1 \in S
    BY <1>6
  <1>8. n \in Nat
    BY FS_CardinalityType DEF Inputs
  <1>9. n \in S
    <2> HIDE DEF S, n
    <2> QED BY <1>5, <1>7, <1>8, UpTo
  <1> QED BY <1>2, <1>8, <1>9

\* The grant that L9 makes of a template is a document, with its fields.
LEMMA GrantIsDocument ==
  ASSUME NEW tpl, GrantDocument(tpl), NEW id, NEW overrides
  PROVE  LET grant == instantiateGrantTemplate(tpl, id, overrides) IN
         GrantDocument(grant) /\ DOMAIN grant.entries = DOMAIN tpl.entries
  <1> DEFINE entry(t) == IF t \in DOMAIN overrides
                         THEN [tpl.entries[t] EXCEPT !.max = overrides[t]] ELSE tpl.entries[t]
             entries == [t \in DOMAIN tpl.entries |-> entry(t)]
             caps == [tpl EXCEPT !.task = id, !.entries = entries]
             total == Min({caps.total, SumOfCaps(caps)})
             grant == [caps EXCEPT !.total = total]
  <1>1. \A t \in DOMAIN tpl.entries :
           DOMAIN entry(t) = {"max", "workspace", "themis", "mutating", "templates"}
    BY DEF GrantDocument
  <1>2. DOMAIN entries = DOMAIN tpl.entries /\ \A t \in DOMAIN entries : entries[t] = entry(t)
    OBVIOUS
  <1>3. instantiateGrantTemplate(tpl, id, overrides) = grant
    BY DEF instantiateGrantTemplate
  <1> HIDE DEF entry, entries, total
  <1>4. DOMAIN grant = {"version", "task", "total", "entries"} /\ grant.entries = entries
    BY DEF GrantDocument
  <1> HIDE DEF grant
  <1> QED BY <1>1, <1>2, <1>3, <1>4 DEF GrantDocument

\* A grant that decodes to one L4 loads, and that writes no workspace of its
\* own, is one that binds its workspace and that L4 loads when it is bound.
LEMMA BoundLoads ==
  ASSUME NEW grant, GrantDocument(grant), parseGrantShape(Decoded(grant)),
         NEW id, checkGrantShape(grant, id),
         \A t \in DOMAIN grant.entries : grant.entries[t].workspace # ""
  PROVE  BindsWorkspace(grant) /\ LoadGrant(Bound(grant))
  <1> DEFINE decoded(t) == IF grant.entries[t].workspace = "none"
                           THEN [grant.entries[t] EXCEPT !.workspace = ""] ELSE grant.entries[t]
             bound(t) == [grant.entries[t] EXCEPT
                            !.workspace = IF @ = "@workspace" THEN "absolute" ELSE ""]
  <1>1. BindsWorkspace(grant)
    BY DEF BindsWorkspace, checkGrantShape
  <1>2. \A t \in DOMAIN grant.entries :
          /\ decoded(t).max = grant.entries[t].max
          /\ decoded(t).templates = grant.entries[t].templates
          /\ bound(t).max = grant.entries[t].max /\ bound(t).templates = grant.entries[t].templates
          /\ bound(t).workspace \in {"", "absolute"}
    BY DEF GrantDocument
  <1> HIDE DEF decoded, bound
  <1>3. /\ DOMAIN Decoded(grant).entries = DOMAIN grant.entries
        /\ Decoded(grant).total = grant.total
        /\ \A t \in DOMAIN grant.entries : Decoded(grant).entries[t] = decoded(t)
    BY DEF Decoded, GrantDocument, decoded
  <1>4. /\ DOMAIN Bound(grant).entries = DOMAIN grant.entries
        /\ Bound(grant).total = grant.total
        /\ \A t \in DOMAIN grant.entries : Bound(grant).entries[t] = bound(t)
    BY DEF Bound, GrantDocument, bound
  <1>5. GrantShape(Decoded(grant))
    BY DEF parseGrantShape
  <1>6. LoadGrant(Bound(grant))
    <2>1. DOMAIN Bound(grant).entries # {} /\ Bound(grant).total \in Nat \ {0}
      BY <1>3, <1>4, <1>5, Zenon DEF GrantShape
    <2>2. ASSUME NEW t \in DOMAIN Bound(grant).entries
          PROVE  /\ Bound(grant).entries[t].max \in Nat \ {0}
                 /\ Bound(grant).entries[t].templates \subseteq References
                 /\ Bound(grant).entries[t].workspace \in {"", "absolute"}
      <3>1. t \in DOMAIN grant.entries /\ Bound(grant).entries[t] = bound(t)
        BY <1>4
      <3>2. decoded(t).max \in Nat \ {0} /\ decoded(t).templates \subseteq References
        BY <1>3, <1>5, <3>1 DEF GrantShape
      <3> QED BY <1>2, <3>1, <3>2
    <2> QED BY <2>1, <2>2, Zenon DEF LoadGrant, GrantShape
  <1> QED BY <1>1, <1>6

\* What of an emitted envelope is as SubmitTask asks.
Admissible(env) ==
    /\ EnvelopeLoads(env)
    /\ Commits(env, "grant", env.grant) /\ Commits(env, "spec", env.spec)
    /\ env.spec.task = env.task
    /\ BindsWorkspace(env.grant) /\ LoadGrant(Bound(env.grant))

Excepted(env) ==
    \/ env.payload > PayloadCap
    \/ \E t \in DOMAIN env.grant.entries : env.grant.entries[t].workspace = ""

\* The composition that L9 instantiates, and the two files it makes of it.
LEMMA Instantiated ==
  ASSUME NEW files, NEW req, NEW env \in Instantiate(files, req)
  PROVE  \E e, f :
            LET m == Manifests[e.composition] IN
            /\ RequestHolds(req) /\ Key(e) = req.skill /\ LoadManifest(e.composition)
            /\ f \in Files(m, req) /\ InstanceHolds(m, f[1], f[2], req)
            /\ env = Envelope(m, f[1], f[2], req)
  <1> DEFINE found == Resolve(Catalogs[files["catalog"]], files, req.skill)
  <1>1. RequestHolds(req) /\ \E m \in found : \E f \in Files(m, req) :
           InstanceHolds(m, f[1], f[2], req) /\ env = Envelope(m, f[1], f[2], req)
    BY Zenon DEF Instantiate
  <1>2. \A m \in found : \E e : /\ Key(e) = req.skill /\ LoadManifest(e.composition)
                                /\ m = Manifests[e.composition]
    BY DEF Resolve, Named
  <1> HIDE DEF found
  <1>3. PICK m \in found : \E f \in Files(m, req) :
           InstanceHolds(m, f[1], f[2], req) /\ env = Envelope(m, f[1], f[2], req)
    BY <1>1, Zenon
  <1>4. PICK f \in Files(m, req) :
           InstanceHolds(m, f[1], f[2], req) /\ env = Envelope(m, f[1], f[2], req)
    BY <1>3, Zenon
  <1>5. PICK e : Key(e) = req.skill /\ LoadManifest(e.composition) /\ m = Manifests[e.composition]
    BY <1>2
  <1> QED BY <1>1, <1>4, <1>5, Zenon

LEMMA EmittedLoads ==
  ASSUME NEW files, NEW req \in Requests, NEW env \in Instantiate(files, req), ~Excepted(env)
  PROVE  Admissible(env)
  <1>1. PICK e, f :
            LET m == Manifests[e.composition] IN
            /\ RequestHolds(req) /\ Key(e) = req.skill /\ LoadManifest(e.composition)
            /\ f \in Files(m, req) /\ InstanceHolds(m, f[1], f[2], req)
            /\ env = Envelope(m, f[1], f[2], req)
    BY Instantiated, Zenon
  <1> DEFINE m == Manifests[e.composition]
             grant == f[1]
             spec == f[2]
             tpl == m.pins["grant_template"].sha
             sealed == sealedComposition(m, grant, spec)
             c == Head(env.composition)
  <1>2. /\ req.task \in TaskIDs /\ req.model # "" /\ req.turn > 0
        /\ parseSpec(spec) /\ spec.task = req.task
        /\ checkGrantShape(grant, req.task) /\ parseGrantShape(Decoded(grant))
        /\ grant = instantiateGrantTemplate(tpl, req.task, req.overrides)
    <2>1. RequestHolds(req) /\ f \in Files(m, req) /\ InstanceHolds(m, grant, spec, req)
      BY <1>1, Zenon
    <2>2. grant = instantiateGrantTemplate(tpl, req.task, req.overrides)
      <3> HIDE DEF m
      <3> QED BY <2>1 DEF Files
    <2> HIDE DEF m, grant, spec
    <2>3. /\ parseSpec(spec) /\ spec.task = req.task /\ checkGrantShape(grant, req.task)
          /\ parseGrantShape(Decoded(grant))
      BY <2>1, Zenon DEF InstanceHolds, Instantiates
    <2> QED BY <2>1, <2>2, <2>3 DEF RequestHolds
  <1>3. req.skill # << >>
    <2>1. req.skill = <<e.name, e.version>>
      BY <1>1 DEF Key
    <2> QED BY <2>1
  <1>4. GrantDocument(grant)
    <2>1. GrantDocument(tpl)
      BY <1>1, DeploymentAssumption DEF LoadManifest, Members
    <2> HIDE DEF tpl, grant
    <2> QED BY <1>2, <2>1, GrantIsDocument
  <1>5. PayloadSize(req.inputs) \in Nat
    BY SizeIsNumber, DeploymentAssumption DEF Inputs
  <1> HIDE DEF m, grant, spec, tpl
  <1>6. /\ env.task = req.task /\ env.model = req.model /\ env.turn = req.turn
        /\ env.payload = PayloadSize(req.inputs) /\ env.skill = req.skill
        /\ "skill" \in DOMAIN env.origin => env.origin["skill"] = req.skill
        /\ "procedure" \in DOMAIN env.paths
        /\ env.procedure = <<m.pins["procedure"].sha>>
        /\ env.composition = <<[fields |-> sealed, seal |-> sealed]>>
        /\ env.grant = grant /\ env.spec = spec
    BY <1>1 DEF Envelope, m, grant, spec
  <1>7. /\ DOMAIN sealed = SealedFields /\ sealed["grant"] = grant /\ sealed["spec"] = spec
        /\ "procedure" \in SealedFields
    BY DEF sealedComposition, SealedFields, Members
  <1> HIDE DEF sealed
  <1>8. /\ env.composition # << >> /\ c.fields = sealed /\ c.seal = sealed
    BY <1>6
  <1> HIDE DEF c
  <1>9. env.payload <= PayloadCap
    <2>1. env.payload \in Nat /\ PayloadCap \in Nat
      BY <1>5, <1>6, DeploymentAssumption
    <2>2. ~(env.payload > PayloadCap)
      BY Zenon DEF Excepted
    <2> QED BY <2>1, <2>2
  <1>10. env.task # "" /\ env.procedure # << >>
    <2>1. spec.task # ""
      BY <1>2, Zenon DEF parseSpec
    <2>2. env.task = spec.task
      BY <1>2, <1>6, Zenon
    <2>3. env.procedure # << >>
      BY <1>6
    <2> QED BY <2>1, <2>2, <2>3, Zenon
  <1>11. EnvelopeLoads(env)
    BY <1>2, <1>3, <1>6, <1>7, <1>8, <1>9, <1>10 DEF EnvelopeLoads, checkSeal, c
  <1>12. Commits(env, "grant", env.grant) /\ Commits(env, "spec", env.spec)
    BY <1>6, <1>7, <1>8 DEF Commits, c
  <1>13. BindsWorkspace(env.grant) /\ LoadGrant(Bound(env.grant))
    <2>1. \A t \in DOMAIN grant.entries : grant.entries[t].workspace # ""
      BY <1>6 DEF Excepted
    <2> QED BY <1>2, <1>4, <1>6, <2>1, BoundLoads
  <1> QED BY <1>2, <1>6, <1>11, <1>12, <1>13 DEF Admissible

\* EmittedIsAdmitted with its two exceptions named.
LEMMA EmittedStep == EmittedIsAdmitted /\ [Next]_vars => EmittedIsAdmitted'
  <1> SUFFICES ASSUME EmittedIsAdmitted, [Next]_vars PROVE EmittedIsAdmitted'
    OBVIOUS
  <1>1. CASE InstantiateSkill
    <2>1. PICK req \in Requests : \E env \in Instantiate(disk, req) : Offer(env, "L9")
      BY <1>1 DEF InstantiateSkill
    <2>2. PICK env \in Instantiate(disk, req) : Offer(env, "L9")
      BY <2>1
    <2>3. offer' = <<[env |-> env, by |-> "L9"]>> /\ Head(offer').env = env
      BY <2>2 DEF Offer
    <2>4. Excepted(env) \/ Admissible(env)
      BY EmittedLoads
    <2> QED BY <2>3, <2>4 DEF EmittedIsAdmitted, Excepted, Admissible
  <1>2. CASE Assemble
    <2>1. PICK env : Offer(env, "other")
      BY <1>2 DEF Assemble
    <2>2. Head(offer').by = "other"
      BY <2>1 DEF Offer
    <2> QED BY <2>2 DEF EmittedIsAdmitted
  <1>3. CASE ~Offering
    <2>1. offer' = offer
      BY <1>3, Parties, OpeningLeaves, SubmittingLeaves DEF Edit, vars
    <2> QED BY <2>1 DEF EmittedIsAdmitted
  <1> QED BY <1>1, <1>2, <1>3 DEF Offering

\* EmittedIsAdmitted, whatever the catalog, the manifests, the templates and
\* the requests: an envelope of L9 that stays under the cap, of a template
\* that writes no empty workspace, is refused by none of the checks that
\* SubmitTask makes of an envelope and of the files beside it.
THEOREM EmittedIsAlwaysAdmitted == Spec => []EmittedIsAdmitted
  <1>1. Init => EmittedIsAdmitted
    BY DEF Init, EmittedIsAdmitted
  <1> QED BY <1>1, EmittedStep, PTL DEF Spec

(***************************************************************************)
(* What a call may do.                                                     *)
(***************************************************************************)

\* An entry that permits what another does, in at most as many calls.
EntryNarrows(e, f) ==
    /\ e.max \in Nat /\ f.max \in Nat /\ e.max <= f.max
    /\ e.mutating = f.mutating /\ e.themis = f.themis /\ e.templates = f.templates
    /\ (e.workspace = "") = (f.workspace = "")

Narrows(eff, tpl) ==
    /\ eff.total \in Nat /\ tpl.total \in Nat /\ eff.total <= tpl.total
    /\ DOMAIN eff.entries \subseteq DOMAIN tpl.entries
    /\ \A t \in DOMAIN eff.entries : EntryNarrows(eff.entries[t], tpl.entries[t])

EntryFields == {"max", "workspace", "themis", "mutating", "templates"}

\* Two entries that differ only in their quotas.
LEMMA SameButMax ==
  ASSUME NEW e, NEW f, DOMAIN e = EntryFields, [e EXCEPT !.max = 0] = [f EXCEPT !.max = 0]
  PROVE  /\ e.mutating = f.mutating /\ e.themis = f.themis /\ e.templates = f.templates
         /\ e.workspace = f.workspace
  <1>1. DOMAIN [e EXCEPT !.max = 0] = EntryFields /\ DOMAIN [f EXCEPT !.max = 0] = DOMAIN f
    OBVIOUS
  <1>2. DOMAIN f = EntryFields
    BY <1>1
  <1>3. ASSUME NEW k \in EntryFields \ {"max"} PROVE e[k] = f[k]
    <2>1. [e EXCEPT !.max = 0][k] = e[k] /\ [f EXCEPT !.max = 0][k] = f[k]
      BY <1>2
    <2> QED BY <2>1
  <1> QED BY <1>3 DEF EntryFields

\* instantiateGrant binds what Instantiates has compared.
LEMMA BoundNarrows ==
  ASSUME NEW raw, GrantDocument(raw), NEW tpl, NEW id, Instantiates(Decoded(raw), tpl, id)
  PROVE  Narrows(Bound(raw), tpl)
  <1> DEFINE decoded(t) == IF raw.entries[t].workspace = "none"
                           THEN [raw.entries[t] EXCEPT !.workspace = ""] ELSE raw.entries[t]
             bound(t) == [raw.entries[t] EXCEPT
                            !.workspace = IF @ = "@workspace" THEN "absolute" ELSE ""]
             eff == Decoded(raw)
  <1>1. /\ DOMAIN eff.entries = DOMAIN raw.entries /\ eff.total = raw.total
        /\ \A t \in DOMAIN raw.entries : eff.entries[t] = decoded(t)
    BY DEF Decoded, GrantDocument
  <1>2. /\ DOMAIN Bound(raw).entries = DOMAIN raw.entries /\ Bound(raw).total = raw.total
        /\ \A t \in DOMAIN raw.entries : Bound(raw).entries[t] = bound(t)
    BY DEF Bound, GrantDocument
  <1> HIDE DEF eff
  <1>3. /\ parseGrantShape(eff) /\ parseGrantShape(tpl)
        /\ eff.total <= tpl.total /\ DOMAIN eff.entries = DOMAIN tpl.entries
        /\ \A t \in DOMAIN eff.entries :
             /\ eff.entries[t].max <= tpl.entries[t].max
             /\ [eff.entries[t] EXCEPT !.max = 0] = [tpl.entries[t] EXCEPT !.max = 0]
    BY Zenon DEF Instantiates, eff
  <1>4. Bound(raw).total \in Nat /\ tpl.total \in Nat /\ Bound(raw).total <= tpl.total
    BY <1>1, <1>2, <1>3 DEF parseGrantShape, GrantShape
  <1>5. ASSUME NEW t \in DOMAIN raw.entries
        PROVE  EntryNarrows(Bound(raw).entries[t], tpl.entries[t])
    <2> DEFINE e == decoded(t)
               f == tpl.entries[t]
    <2>1. e.max \in Nat /\ f.max \in Nat /\ e.max <= f.max /\ e.workspace \in {"", "@workspace"}
      BY <1>1, <1>3 DEF parseGrantShape, GrantShape
    <2>2. DOMAIN e = EntryFields
      BY DEF GrantDocument, EntryFields
    <2>3. [e EXCEPT !.max = 0] = [f EXCEPT !.max = 0]
      BY <1>1, <1>3
    <2>4. /\ bound(t).max = e.max /\ bound(t).mutating = e.mutating /\ bound(t).themis = e.themis
          /\ bound(t).templates = e.templates
      BY DEF GrantDocument
    <2>5. (bound(t).workspace = "") = (e.workspace = "")
      <3>1. bound(t).workspace = IF raw.entries[t].workspace = "@workspace" THEN "absolute" ELSE ""
        BY DEF GrantDocument
      <3>2. e.workspace = IF raw.entries[t].workspace = "none" THEN "" ELSE raw.entries[t].workspace
        BY DEF GrantDocument
      <3> HIDE DEF bound, e
      <3> QED BY <2>1, <3>1, <3>2
    <2> HIDE DEF decoded, bound, f
    <2>6. e.mutating = f.mutating /\ e.themis = f.themis /\ e.templates = f.templates
          /\ e.workspace = f.workspace
      BY <2>2, <2>3, SameButMax
    <2>7. EntryNarrows(bound(t), f)
      <3> HIDE DEF e
      <3> QED BY <2>1, <2>4, <2>5, <2>6 DEF EntryNarrows
    <2> QED BY <1>2, <2>7 DEF f
  <1> QED BY <1>1, <1>2, <1>3, <1>4, <1>5 DEF Narrows

\* phaseGrant keeps some of the entries, as they are.
LEMMA PhaseNarrows ==
  ASSUME NEW eff, DOMAIN eff = {"version", "task", "total", "entries"}, NEW tpl,
         Narrows(eff, tpl), NEW capabilities
  PROVE  Narrows(phaseGrant(eff, capabilities), tpl)
  <1> DEFINE some == [t \in DOMAIN eff.entries \cap capabilities |-> eff.entries[t]]
  <1>1. phaseGrant(eff, capabilities).total = eff.total
        /\ phaseGrant(eff, capabilities).entries = some
    BY DEF phaseGrant
  <1>2. DOMAIN some \subseteq DOMAIN eff.entries /\ \A t \in DOMAIN some : some[t] = eff.entries[t]
    OBVIOUS
  <1> HIDE DEF some
  <1> QED BY <1>1, <1>2 DEF Narrows

\* Authorize answers alike under both, but for the quotas.
LEMMA NarrowAuthorizes ==
  ASSUME NEW eff, NEW tpl, Narrows(eff, tpl), NEW reg, NEW call, NEW used,
         used.total \in Nat, used.calls[call.tool] \in Nat,
         Authorizes(reg, eff, call, used)
  PROVE  Authorizes(reg, tpl, call, used)
  <1> DEFINE def == reg[call.tool]
             e == eff.entries[call.tool]
             f == tpl.entries[call.tool]
  <1>1. Available(reg, eff, call.tool, used) /\ Allow \in ArgsAnswers(def, e, call)
    <2>1. Allow # NotAvailable
      BY DEF Allow, NotAvailable, Deny
    <2>2. Allow \in Authorize(reg, eff, call, used)
      BY DEF Authorizes
    <2> QED BY <2>1, <2>2 DEF Authorize
  <1>2. EntryNarrows(e, f) /\ call.tool \in DOMAIN tpl.entries
    BY <1>1 DEF Narrows, Available
  <1>3. Available(reg, tpl, call.tool, used)
    <2>1. /\ call.tool \in DOMAIN reg /\ (def.mutating => e.mutating)
          /\ used.calls[call.tool] < e.max /\ used.total < eff.total
      BY <1>1 DEF Available
    <2>2. def.mutating => f.mutating
      BY <1>2, <2>1 DEF EntryNarrows
    <2>3. used.calls[call.tool] < f.max /\ used.total < tpl.total
      <3>1. e.max \in Nat /\ f.max \in Nat /\ e.max <= f.max
        BY <1>2 DEF EntryNarrows
      <3>2. eff.total \in Nat /\ tpl.total \in Nat /\ eff.total <= tpl.total
        BY DEF Narrows
      <3> HIDE DEF e, f, def
      <3>3. \A k, m, n \in Nat : k < m /\ m <= n => k < n
        OBVIOUS
      <3> QED BY <2>1, <3>1, <3>2, <3>3
    <2> QED BY <1>2, <2>1, <2>2, <2>3 DEF Available
  <1>4. TargetAnswer(def, e, call) = TargetAnswer(def, f, call)
    <2> HIDE DEF e, f, def
    <2>1. e.themis = f.themis /\ e.templates = f.templates /\ (e.workspace = "") = (f.workspace = "")
      BY <1>2 DEF EntryNarrows
    <2> QED BY <2>1 DEF TargetAnswer
  <1>5. ArgsAnswers(def, e, call) = ArgsAnswers(def, f, call)
    BY <1>4, Zenon DEF ArgsAnswers
  <1> QED BY <1>1, <1>3, <1>5, Zenon DEF Authorizes, Authorize

\* What is offered to SubmitTask is a document, also when L9 makes it.
LEMMA EmittedIsDocument ==
  ASSUME NEW files, NEW req, NEW env \in Instantiate(files, req)
  PROVE  GrantDocument(env.grant)
  <1>1. PICK e, f :
            LET m == Manifests[e.composition] IN
            /\ RequestHolds(req) /\ Key(e) = req.skill /\ LoadManifest(e.composition)
            /\ f \in Files(m, req) /\ InstanceHolds(m, f[1], f[2], req)
            /\ env = Envelope(m, f[1], f[2], req)
    BY Instantiated, Zenon
  <1> DEFINE m == Manifests[e.composition]
             tpl == m.pins["grant_template"].sha
  <1>2. GrantDocument(tpl)
    BY <1>1, DeploymentAssumption DEF LoadManifest, Members
  <1>3. env.grant = f[1] /\ f \in Files(m, req)
    BY <1>1 DEF Envelope
  <1> HIDE DEF m
  <1>4. f[1] = instantiateGrantTemplate(tpl, req.task, req.overrides)
    BY <1>3 DEF Files
  <1> HIDE DEF tpl
  <1> QED BY <1>2, <1>3, <1>4, GrantIsDocument

\* The grant beside an envelope is one, whoever wrote it; so is the task's.
GrantInv ==
    /\ GrantDocument(disk["grant"])
    /\ HasGrant => GrantDocument(task.grant)

\* SubmitTask reads the grant once, and keeps what it read.
LEMMA GrantReadOnce ==
  ASSUME TypeOK, Submitting, HasGrant'
  PROVE  task'.grant = disk["grant"] \/ (HasGrant /\ task'.grant = task.grant)
  <1>0. TaskOK
    BY DEF TypeOK
  <1> HIDE DEF TypeOK
  <1>1. ASSUME NEW ok, NEW next, Advance(ok, next)
        PROVE  task' = next
    <2>1. task' # Refused
      BY DEF HasGrant, Refused
    <2> QED BY <1>1, <2>1 DEF Advance
  <1>2. CASE Submit
    <2>1. PICK ok, env, read : Advance(ok, [pc |-> "loaded", env |-> env, read |-> read, moved |-> {}])
      BY <1>2, Zenon DEF Submit
    <2>2. task' = [pc |-> "loaded", env |-> env, read |-> read, moved |-> {}]
      BY <1>1, <2>1
    <2> QED BY <2>2 DEF HasGrant
  <1>3. CASE AnchorAdmits
    <2>1. PICK ok, m : Advance(ok, With(task, [pc |-> "admitted", manifest |-> m,
                                              catalog |-> disk["catalog"]]))
      BY <1>3, Zenon DEF AnchorAdmits
    <2>2. task' = With(task, [pc |-> "admitted", manifest |-> m, catalog |-> disk["catalog"]])
      BY <1>1, <2>1
    <2> QED BY <2>2 DEF HasGrant, With
  <1>4. CASE Capture
    <2>1. PICK ok, body : Advance(ok, With(task, [pc |-> "captured", bodies |-> body]))
      BY <1>4, Zenon DEF Capture
    <2>2. task' = With(task, [pc |-> "captured", bodies |-> body])
      BY <1>1, <2>1
    <2> QED BY <2>2 DEF HasGrant, With
  <1>5. CASE CheckInstance
    <2>1. PICK ok : Advance(ok, With(task, [pc |-> "instance", grant |-> disk["grant"]]))
      BY <1>5, Zenon DEF CheckInstance
    <2>2. task' = With(task, [pc |-> "instance", grant |-> disk["grant"]])
      BY <1>1, <2>1
    <2> QED BY <2>2 DEF With
  <1>6. CASE Provision
    <2>1. PICK ok, effective : Advance(ok, With(task, [pc |-> "provisioned", effective |-> effective]))
      BY <1>6, Zenon DEF Provision
    <2>2. task' = With(task, [pc |-> "provisioned", effective |-> effective])
      BY <1>1, <2>1
    <2>3. task.pc = "instance"
      BY <1>6 DEF Provision
    <2> QED BY <1>0, <2>2, <2>3 DEF HasGrant, With, TaskOK, TaskFields
  <1>7. CASE resolveTaskEIS
    <2>1. PICK ok, proc, eis : Advance(ok, With(task, [pc |-> "resolved", procedure |-> proc,
                                                      eis |-> eis]))
      BY <1>7, Zenon DEF resolveTaskEIS
    <2>2. task' = With(task, [pc |-> "resolved", procedure |-> proc, eis |-> eis])
      BY <1>1, <2>1
    <2>3. task.pc = "provisioned"
      BY <1>7 DEF resolveTaskEIS
    <2> QED BY <1>0, <2>2, <2>3 DEF HasGrant, With, TaskOK, TaskFields
  <1>8. CASE CreateTask
    BY <1>0, <1>8 DEF CreateTask, HasGrant, TaskOK, TaskFields
  <1> QED BY <1>2, <1>3, <1>4, <1>5, <1>6, <1>7, <1>8 DEF Submitting

LEMMA GrantInit == Init => GrantInv
  BY DeploymentAssumption DEF Init, GrantInv, HasGrant, NoTask

LEMMA GrantStep == TypeOK /\ GrantInv /\ [Next]_vars => GrantInv'
  <1> SUFFICES ASSUME TypeOK, GrantInv, [Next]_vars PROVE GrantInv'
    OBVIOUS
  <1>1. "grant" \in DOMAIN disk
    BY DeploymentAssumption DEF TypeOK
  <1>2. CASE Opening
    BY <1>2, OpeningLeaves DEF GrantInv, HasGrant
  <1>3. CASE Submitting
    BY <1>3, SubmittingLeaves, GrantReadOnce DEF GrantInv
  <1>4. CASE Offering
    <2>1. PICK env, by : Offer(env, by) /\ GrantDocument(env.grant)
      <3>1. CASE InstantiateSkill
        <4>1. PICK req \in Requests : \E env \in Instantiate(disk, req) : Offer(env, "L9")
          BY <3>1 DEF InstantiateSkill
        <4>2. PICK env \in Instantiate(disk, req) : Offer(env, "L9")
          BY <4>1
        <4> QED BY <4>2, EmittedIsDocument
      <3>2. CASE Assemble
        <4>1. PICK env \in HandMade : Offer(env, "other")
          BY <3>2 DEF Assemble
        <4> QED BY <4>1, DeploymentAssumption
      <3> QED BY <1>4, <3>1, <3>2 DEF Offering
    <2>2. disk' = [disk EXCEPT !["grant"] = env.grant, !["spec"] = env.spec] /\ UNCHANGED task
      BY <2>1 DEF Offer
    <2>3. disk'["grant"] = env.grant
      BY <1>1, <2>2
    <2> QED BY <2>1, <2>2, <2>3 DEF GrantInv, HasGrant
  <1>5. CASE Edit
    <2>1. PICK p \in DOMAIN Versions :
            \E c \in Versions[p] : disk' = [disk EXCEPT ![p] = c] /\ task' = Moved(task, p)
      BY <1>5 DEF Edit
    <2>2. PICK c \in Versions[p] : disk' = [disk EXCEPT ![p] = c]
      BY <2>1
    <2>3. GrantDocument(disk'["grant"])
      BY <1>1, <2>2, DeploymentAssumption DEF GrantInv
    <2>4. HasGrant' => HasGrant /\ task'.grant = task.grant
      BY <2>1 DEF Moved, HasGrant, TypeOK, TaskOK, TaskFields
    <2> QED BY <2>3, <2>4 DEF GrantInv
  <1>6. CASE UNCHANGED vars
    BY <1>6 DEF vars, GrantInv, HasGrant
  <1> QED BY <1>2, <1>3, <1>4, <1>5, <1>6, Parties

LEMMA NarrowingFollows == AnchorInv /\ TaskInv /\ GrantInv => GrantsOnlyNarrow
  <1> SUFFICES ASSUME AnchorInv, TaskInv, GrantInv, task.pc = "running", task.env.skill # << >>
               PROVE  GrantsOnlyNarrow
    BY DEF GrantsOnlyNarrow
  <1> DEFINE pins == SkillOf(Anchors[orch.anchor], task.env).pins
             tpl == Decoded(pins["grant_template"].sha)
  <1>1. Instantiates(Decoded(task.grant), tpl, task.env.task)
    BY DeploymentFollows DEF ExecutesTheDeployment
  <1>2. GrantDocument(task.grant) /\ task.effective = Bound(task.grant)
    BY DEF GrantInv, TaskInv, HasGrant, HasEffective
  <1> HIDE DEF tpl
  <1>3. Narrows(task.effective, tpl)
    BY <1>1, <1>2, BoundNarrows
  <1>4. DOMAIN task.effective = {"version", "task", "total", "entries"}
    BY <1>2 DEF Bound, GrantDocument
  <1>5. ASSUME NEW capabilities, NEW call \in Calls, NEW used \in Usages, NEW reg,
               Authorizes(reg, phaseGrant(task.effective, capabilities), call, used)
        PROVE  Authorizes(reg, tpl, call, used)
    <2>1. Narrows(phaseGrant(task.effective, capabilities), tpl)
      BY <1>3, <1>4, PhaseNarrows
    <2>2. used.total \in Nat /\ used.calls[call.tool] \in Nat
      BY DeploymentAssumption
    <2> QED BY <1>5, <2>1, <2>2, NarrowAuthorizes
  <1> QED BY <1>5, Zenon DEF GrantsOnlyNarrow, tpl

\* GrantsOnlyNarrow, for every grant a submitter may write, every edit and
\* every registry, workflow, call and usage: between the template and the
\* gate a grant passes through an instantiation, the binding of its workspace
\* and a phase, and none of them lets a call through that the template stops.
THEOREM GrantsAlwaysNarrow == Spec => []GrantsOnlyNarrow
  <1>1. AnchorInv => TypeOK
    BY DEF AnchorInv, RegistryInv
  <1> QED BY <1>1, AnchorInit, AnchorStep, TaskInit, TaskInvStep, GrantInit, GrantStep,
             NarrowingFollows, PTL DEF Spec

=============================================================================
