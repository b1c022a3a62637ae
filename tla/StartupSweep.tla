---------------------------- MODULE StartupSweep ----------------------------
(***************************************************************************)
(* orchestration.Open's startup sweep over a durable record: "close the    *)
(* past before opening the future".  A deployment opens, examines the      *)
(* record it finds, recovers it when it is not terminal, and only then     *)
(* serves tasks; it may stop or die at any point and be opened again.      *)
(* The record's own steps are DurableState's; this module decides when     *)
(* each may happen.                                                        *)
(***************************************************************************)
EXTENDS RecordVerifier

VARIABLES
    orch,       \* the orchestrator: down, sweeping or serving
    bucket      \* where the StartupReport of this Open put the record

sweep   == <<orch, bucket>>
allVars == <<vars, sweep>>

SweepInit == Init /\ orch = "down" /\ bucket = "none"

Open ==
    /\ orch = "down"
    /\ orch' = "sweeping" /\ bucket' = "none"
    /\ UNCHANGED vars

\* Open's verdict on the record: listed in the report, and the next one.
Listed(b) == orch' = "serving" /\ bucket' = b

\* Open returns an error: nothing is served.
OpenRefuses == orch' = "down" /\ bucket' = "none"

\* Mutant: a torn record is left alone like a corrupt one.
TrustedIfWhole == Verify = "VERIFIED"

\* The verdicts on which the sweep acts: VERIFIED and TORN.
Trusted == Verify # "CORRUPT"

\* ReadStatus, then the three ways a record needs no recovery and the way a
\* record cannot be read: a manifest that is not there is an I/O error, not a
\* verdict, and the sweep fails closed on it.
Examine ==
    /\ orch = "sweeping" /\ rpc = "none"
    /\ \/ ~dir /\ Listed("none")
       \/ dir /\ manifest = None /\ OpenRefuses
       \/ /\ dir /\ manifest # None
          /\ \/ ~Trusted /\ Listed("corrupt")
             \/ Trusted /\ terminal(manifest.status) /\ Listed("terminal")
    /\ UNCHANGED vars

SweepRecovers ==
    /\ orch = "sweeping"
    /\ dir /\ manifest # None
    /\ Trusted /\ ~terminal(manifest.status)
    /\ ColdRecovery
    /\ UNCHANGED sweep

\* Recover's own refusals are ErrCorrupt and only listed; any other failure
\* of Recover fails Open.
SweepOutcome ==
    IF rpc' # "none" THEN UNCHANGED sweep
    ELSE IF faults' # faults THEN OpenRefuses
    ELSE IF rpc = "load" THEN Listed("corrupt") ELSE Listed("recovered")

SweepStep == orch = "sweeping" /\ RecoverSteps /\ SweepOutcome

\* Mutant: a serving deployment may be asked to recover a record.
ServeAndRepair ==
    /\ orch = "serving"
    /\ (rpc = "none" /\ WriterNext) \/ ColdRecovery \/ RecoverSteps
    /\ UNCHANGED sweep

Serve == orch = "serving" /\ WriterNext /\ UNCHANGED sweep

Stop ==
    /\ orch = "serving" /\ pc = "none"
    /\ orch' = "down" /\ bucket' = "none"
    /\ UNCHANGED vars

\* The whole process dies, whatever it was doing.
Kill ==
    /\ orch # "down" /\ Crash
    /\ orch' = "down" /\ bucket' = "none"

SweepNext ==
    Open \/ Examine \/ SweepRecovers \/ SweepStep \/ Serve \/ Stop \/ Kill

\* A deployment that is down is opened again, and Open is sequential code.
\* Nothing makes a serving one stop, or a task end.
SweepFairness ==
    /\ WF_allVars(Open) /\ WF_allVars(Examine)
    /\ WF_allVars(SweepRecovers) /\ WF_allVars(SweepStep)

SweepSpec == SweepInit /\ [][SweepNext]_allVars /\ SweepFairness

-----------------------------------------------------------------------------
\* The only divergence a crash can leave between a manifest and its stream is
\* an artifact list that trails the committed bindings: every other claim of a
\* record at rest survives Verify.
OnlyArtifactsTrail ==
    manifest # None =>
        /\ Supported(manifest, log)
        /\ Len(manifest.arts) <= Len(boundArtifacts(log))
        /\ manifest.arts = SubSeq(boundArtifacts(log), 1, Len(manifest.arts))

\* While a deployment serves, a record it found and did not create itself is
\* terminal and verifies, or was surfaced as corrupt: no task of the past is
\* left open under a report that says it was closed.
PastIsClosed ==
    orch = "serving" /\ bucket \in {"terminal", "recovered"} =>
        /\ manifest # None /\ terminal(manifest.status)
        /\ manifest.status = lastLifecycleEvent(log)
        /\ Verify # "CORRUPT"

\* What a start may rely on: a crash leaves nothing behind that the sweep
\* would not see or could not close, but a short artifact list, and what the
\* sweep reports closed is closed (orchestrator.go:280-328, verify.go).
SweepIsSound == OnlyArtifactsTrail /\ PastIsClosed

\* The sweep never touches a record it lists as corrupt, and never opens a
\* terminal record again: a listed record keeps its bytes while the
\* deployment serves.
ListedRecordsKeepTheirBytes ==
    [][orch = "serving" /\ orch' = "serving" /\ bucket # "none"
           => UNCHANGED <<log, tail, saved, manifest>>]_allVars

\* What crash_test.go demands of every crash point: the record a dead process
\* leaves behind, once recovery can see it, does not verify as corrupt.
NoCrashYieldsCorruption ==
    orch = "serving" /\ bucket # "none" => Verify # "CORRUPT"

\* Open's contract: it drives every record it discovers to a typed terminal,
\* so a deployment that keeps being opened ends up serving.
StartupCompletes == orch = "down" ~> orch = "serving"

\* Terminal, or of the one kind that Verify calls CORRUPT after a crash: its
\* artifact list trails, and the sweep only lists it.
SettledOrListed ==
    /\ manifest # None
    /\ terminal(manifest.status) \/ ~ArtifactsProjected(manifest, log)

\* Under a deployment that goes down again and again, a record that ever had
\* a manifest settles, but for one whose artifact list trails: no crash, torn
\* stream or recovery that died keeps another one open for ever
\* (orchestrator.go:292-326, recovery.go).
RestartedRecordsSettle ==
    []<>(orch = "down") => (manifest # None ~> []SettledOrListed)

=============================================================================
