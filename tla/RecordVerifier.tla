--------------------------- MODULE RecordVerifier ---------------------------
(***************************************************************************)
(* Root.Verify and Root.ReadStatus: the cold, read-only re-derivation of   *)
(* a record.  Verify trusts nothing but the committed stream: it replays   *)
(* the lifecycle, re-derives every projection the manifest claims and      *)
(* resolves every reference.                                               *)
(***************************************************************************)
EXTENDS DurableState

IsBinding(e) == e.class = "artifact-bound"

Bind(arts, e) == IF IsBinding(e) THEN Append(arts, e.ref) ELSE arts

\* The artifact list the stream itself supports.
boundArtifacts(evs) ==
    LET boundUpTo[i \in 0 .. Len(evs)] ==
          IF i = 0 THEN <<>> ELSE Bind(boundUpTo[i - 1], evs[i])
    IN  boundUpTo[Len(evs)]

RecoveryRecorded(evs) == \E i \in DOMAIN evs : evs[i].class = "recovery"

\* Count and summary over the bound prefix, the bound checked first.
BindingHolds(m, evs) ==
    m.count <= Len(evs) /\ SubSeq(evs, 1, m.count) = m.sum

ReferencesResolve(evs) ==
    \A i \in DOMAIN evs : evs[i].ref = None \/ evs[i].ref \in objects

\* Everything Verify demands of a manifest beside the artifact list.
Supported(m, evs) ==
    /\ SeqContiguous(evs) /\ LegalWalk(evs)
    /\ statusExplained(m.status, evs)
    /\ m.status = "FAILED_PARTIAL" => RecoveryRecorded(evs)
    /\ terminal(m.status) => BindingHolds(m, evs)
    /\ ReferencesResolve(evs)

\* The artifact list must equal the bindings of the stream, not trail them.
ArtifactsProjected(m, evs) == m.arts = boundArtifacts(evs)

Verify ==
    IF manifest = None THEN "CORRUPT"
    ELSE IF ~Supported(manifest, log) \/ ~ArtifactsProjected(manifest, log)
    THEN "CORRUPT"
    ELSE IF saved # {} \/ tail # 0 THEN "TORN" ELSE "VERIFIED"

=============================================================================
