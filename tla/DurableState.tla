---------------------------- MODULE DurableState ----------------------------
(***************************************************************************)
(* The L6 durable record of ONE task (src/harness/state): an append-only   *)
(* event stream, the manifest that projects it, and the objects its events *)
(* refer to.  A live process writes through a TaskRecord handle; after a   *)
(* crash a cold process repairs the record with Recover.                   *)
(*                                                                         *)
(* What is kept: every disk effect, in the order the code makes it, every  *)
(* early return, and a failure or a crash between any two of them.         *)
(* What is abstracted: event bodies (only a lifecycle event's target and   *)
(* an event's reference matter), hashes (a summary over a prefix is the    *)
(* prefix itself, so it is collision free), and the task identity (the     *)
(* records of two tasks share nothing but the object store).               *)
(***************************************************************************)
EXTENDS Naturals, Sequences, FiniteSets

CONSTANTS
    Objects,    \* addresses of the content-addressed object store
    None,       \* no reference, no target, no manifest
    MaxEvents,  \* bound: the caller starts no operation on a longer stream
    MaxFaults   \* bound: crashes and failed disk operations in one behaviour

ASSUME NoneAssumption == None \notin Objects /\ None \notin STRING
ASSUME BoundAssumption == MaxEvents \in Nat /\ MaxFaults \in Nat

VARIABLES
    dir,        \* the task directory exists
    log,        \* events.log up to its committed frontier
    tail,       \* 0, or the number of the torn write that ends events.log
    saved,      \* the events.torn.<n> files
    manifest,   \* manifest.json, or None
    objects,    \* the addresses that are occupied in the object store
    pc,         \* where the writer's current operation is
    op,         \* the writer's current operation and the event it committed
    live,       \* Root.live[task]
    mem,        \* TaskRecord.man, the writer's copy of the manifest
    chain,      \* the writer's stream: its position and running summary
    broken,     \* stream.terminal
    rpc,        \* where Recover is
    rec,        \* what Recover parsed, loaded and appended
    acked,      \* ghost: the events whose operation returned without error
    tears,      \* ghost: the number of torn writes so far
    faults      \* ghost: the faults spent from MaxFaults

disk     == <<dir, log, tail, saved, manifest, objects, tears>>
writer   == <<pc, op, live, mem, chain, broken, acked>>
recovery == <<rpc, rec>>
vars     == <<dir, log, tail, saved, manifest, objects, pc, op, live, mem,
              chain, broken, rpc, rec, acked, tears, faults>>

-----------------------------------------------------------------------------
(* The vocabulary. *)

Statuses == {"CREATED", "RUNNING", "COMPLETED", "FAILED", "FAILED_PARTIAL"}

terminal(s) == s \in {"COMPLETED", "FAILED", "FAILED_PARTIAL"}

legalNext == [s \in Statuses |->
    CASE s = "CREATED" -> {"RUNNING", "FAILED", "FAILED_PARTIAL"}
      [] s = "RUNNING" -> {"COMPLETED", "FAILED", "FAILED_PARTIAL"}
      [] OTHER         -> {}]

callerRequestable == {"RUNNING", "COMPLETED", "FAILED"}

\* "work" stands for every class a layer appends through AppendEvent or the
\* L5 handle: the rules of the record are the same for all of them.
Classes == {"lifecycle", "artifact-bound", "recovery", "contamination", "work"}

Event == [seq : Nat, class : Classes, to : Statuses \cup {None},
          ref : Objects \cup {None}]

Manifest == [status : Statuses, arts : Seq(Objects), count : Nat,
             sum : Seq(Event)]

ASSUME ManifestAssumption == None \notin Manifest

Lifecycle(s, to) ==
    [seq |-> s, class |-> "lifecycle", to |-> to, ref |-> None]

\* Mutant: the contamination flag takes the number of the event it flags.
FlagSharesNumber(s, class, ref) ==
    [seq |-> IF class = "contamination" THEN s - 1 ELSE s, class |-> class,
     to |-> None, ref |-> ref]

Plain(s, class, ref) == [seq |-> s, class |-> class, to |-> None, ref |-> ref]

FreshManifest == [status |-> "CREATED", arts |-> <<>>, count |-> 0,
                  sum |-> <<>>]

IsLifecycle(e) == e.class = "lifecycle"

\* st is the target of the last lifecycle event of evs.
LastIs(evs, st) ==
    \E i \in DOMAIN evs :
        /\ IsLifecycle(evs[i]) /\ evs[i].to = st
        /\ \A j \in DOMAIN evs : j > i => ~IsLifecycle(evs[j])

lastLifecycleEvent(evs) ==
    IF \E st \in Statuses : LastIs(evs, st)
    THEN CHOOSE st \in Statuses : LastIs(evs, st)
    ELSE None

statusExplained(status, evs) ==
    \E i \in DOMAIN evs : IsLifecycle(evs[i]) /\ evs[i].to = status

\* Decision j of evs is CREATED if it is the first, and otherwise one that
\* legalNext allows after the decision before it.
LegalDecision(evs, j) ==
    IF \A i \in 1 .. j - 1 : ~IsLifecycle(evs[i])
    THEN evs[j].to = "CREATED"
    ELSE \E i \in 1 .. j - 1 :
           /\ IsLifecycle(evs[i]) /\ evs[j].to \in legalNext[evs[i].to]
           /\ \A k \in i + 1 .. j - 1 : ~IsLifecycle(evs[k])

LegalWalk(evs) ==
    \A j \in DOMAIN evs : IsLifecycle(evs[j]) => LegalDecision(evs, j)

\* parseStream stops at the first committed entry out of sequence.
SeqContiguous(evs) == \A i \in DOMAIN evs : evs[i].seq = i - 1

-----------------------------------------------------------------------------
(* Disk effects. *)

\* A whole frame written to the end of events.log: an entry when the file
\* ends at the frontier, more unparseable bytes when a torn tail is there.
Landed(e) == IF tail = 0 THEN Append(log, e) ELSE log

\* A failed write or fsync leaves nothing, a torn frame, or a whole frame
\* that nobody acknowledged.
FailedAppend(e) ==
    \/ UNCHANGED <<log, tail, tears>>
    \/ /\ tears' = tears + 1
       /\ tail' = tears + 1
       /\ UNCHANGED log
    \/ log' = Landed(e) /\ UNCHANGED <<tail, tears>>

\* Mutant: a failed append leaves the stream open for more.
StreamStaysOpen == UNCHANGED broken

\* After a failed append the stream refuses every later one.
StreamFails == broken' = TRUE

Fault == faults < MaxFaults /\ faults' = faults + 1

\* writeManifest: temp file, fsync, rename, directory fsync.  A failure
\* leaves the old manifest or, after the rename, the new one.
WriteManifest(m)       == manifest' = m
FailedWriteManifest(m) == manifest' \in {manifest, m}

-----------------------------------------------------------------------------
NoOp  == [kind |-> "none", ev |-> None]
NoRec == [events |-> <<>>, tail |-> 0, man |-> None]

Init ==
    /\ dir = FALSE
    /\ log = <<>> /\ tail = 0 /\ saved = {} /\ manifest = None /\ objects = {}
    /\ pc = "none" /\ op = NoOp
    /\ live = FALSE /\ mem = FreshManifest /\ chain = <<>> /\ broken = FALSE
    /\ rpc = "none" /\ rec = NoRec
    /\ acked = {} /\ tears = 0 /\ faults = 0

-----------------------------------------------------------------------------
(* The writer: CreateTask and the methods of TaskRecord.  Each runs under  *)
(* the record's mutex, so one operation is in progress at a time.          *)

\* os.Mkdir is exclusive: a task identity is created once, forever.
IdentityUnused == ~dir

CreateTask ==
    /\ IdentityUnused /\ pc = "none"
    /\ dir' = TRUE
    /\ pc' = "create" /\ chain' = <<>> /\ broken' = FALSE
    /\ mem' = FreshManifest
    /\ UNCHANGED <<log, tail, saved, manifest, objects, op, live, acked,
                   tears, recovery, faults>>

\* A body shaped like a secret is flagged; an artifact address never is one.
Suspect(kind) == IF kind = "bind" THEN {FALSE} ELSE BOOLEAN

\* Where an operation goes once its events are committed.
Committed(kind) == IF kind = "append" THEN "idle" ELSE "project"

\* CreateTask that fails returns no handle; any other caller keeps its own.
Abandoned(kind) == IF kind = "create" THEN "none" ELSE "idle"

\* stream.append then the contamination check of appendLocked.
AppendLocked(kind, e) ==
    /\ ~broken
    /\ \/ \E suspect \in Suspect(kind) :
            /\ log' = Landed(e) /\ chain' = Append(chain, e)
            /\ pc' = IF suspect THEN "flag" ELSE Committed(kind)
            /\ op' = IF pc' = "idle" THEN NoOp ELSE [kind |-> kind, ev |-> e]
            /\ acked' = IF kind = "append" /\ ~suspect THEN acked \cup {e}
                                                       ELSE acked
            /\ UNCHANGED <<tail, tears, broken, faults>>
       \/ /\ Fault /\ FailedAppend(e)
          /\ StreamFails /\ pc' = Abandoned(kind)
          /\ UNCHANGED <<op, chain, acked>>
    /\ UNCHANGED <<dir, saved, manifest, objects, live, mem, recovery>>

CreatedEvent ==
    pc = "create" /\ AppendLocked("create", Lifecycle(Len(chain), "CREATED"))

\* os.Stat: the address is visible.  Whether it is durable is another matter,
\* which a process that dies cannot tell apart and ObjectStore is about.
HasObject(ref) == ref \in objects

\* Mutant: a caller may go on writing after the terminal transition.
AlwaysOpen == TRUE

\* A terminal record refuses, by the status the handle holds in memory.
NotTerminal == ~terminal(mem.status)

Ready == pc = "idle" /\ Len(log) < MaxEvents

AppendEvent(ref) ==
    /\ Ready /\ NotTerminal
    /\ ref = None \/ HasObject(ref)
    /\ AppendLocked("append", Plain(Len(chain), "work", ref))

Transition(to) ==
    /\ Ready /\ to \in callerRequestable /\ to \in legalNext[mem.status]
    /\ AppendLocked("transition", Lifecycle(Len(chain), to))

BindArtifact(addr) ==
    /\ Ready /\ HasObject(addr) /\ NotTerminal
    /\ AppendLocked("bind", Plain(Len(chain), "artifact-bound", addr))

\* The flag is an append of its own: when it fails, the operation fails
\* although its event is already committed.
FlagContamination ==
    /\ pc = "flag"
    /\ LET e == Plain(Len(chain), "contamination", None) IN
       \/ /\ log' = Landed(e) /\ chain' = Append(chain, e)
          /\ pc' = Committed(op.kind)
          /\ op' = IF pc' = "idle" THEN NoOp ELSE op
          /\ acked' = IF op.kind = "append" THEN acked \cup {op.ev} ELSE acked
          /\ UNCHANGED <<tail, tears, broken, faults>>
       \/ /\ Fault /\ FailedAppend(e)
          /\ StreamFails /\ pc' = Abandoned(op.kind) /\ op' = NoOp
          /\ UNCHANGED <<chain, acked>>
    /\ UNCHANGED <<dir, saved, manifest, objects, live, mem, recovery>>

\* The manifest the operation projects: the new status, bound to the stream
\* when it is terminal, or one more artifact.
Projection ==
    CASE op.kind = "transition" ->
            IF terminal(op.ev.to)
            THEN [mem EXCEPT !.status = op.ev.to, !.count = Len(chain),
                             !.sum = chain]
            ELSE [mem EXCEPT !.status = op.ev.to]
      [] op.kind = "bind" -> [mem EXCEPT !.arts = Append(@, op.ev.ref)]
      [] OTHER -> mem

\* The in-memory manifest changes before the write and stays changed when
\* the write fails.
Project ==
    /\ pc = "project"
    /\ mem' = Projection /\ op' = NoOp
    /\ \/ /\ WriteManifest(Projection)
          /\ pc' = IF op.kind = "create" THEN "register" ELSE "idle"
          /\ acked' = acked \cup {op.ev}
          /\ UNCHANGED faults
       \/ /\ Fault /\ FailedWriteManifest(Projection)
          /\ pc' = Abandoned(op.kind)
          /\ UNCHANGED acked
    /\ UNCHANGED <<dir, log, tail, saved, objects, live, chain, broken,
                   tears, recovery>>

\* setLive(true), the last thing CreateTask does.
Register ==
    /\ pc = "register"
    /\ live' = TRUE /\ pc' = "idle"
    /\ UNCHANGED <<disk, op, mem, chain, broken, acked, recovery, faults>>

\* The handle is gone, and what it held in memory with it.
ForgetHandle ==
    /\ pc' = "none" /\ op' = NoOp /\ live' = FALSE
    /\ mem' = FreshManifest /\ chain' = <<>> /\ broken' = FALSE

Close ==
    /\ pc = "idle"
    /\ ForgetHandle
    /\ UNCHANGED <<disk, acked, recovery, faults>>

\* A publication in the store reaches its link: this task's, or another's
\* (one that comes between two of its operations stands for all).
StoreObject(addr) ==
    /\ pc = "idle" /\ ~HasObject(addr)
    /\ objects' = objects \cup {addr}
    /\ UNCHANGED <<dir, log, tail, saved, manifest, tears, writer, recovery,
                   faults>>

-----------------------------------------------------------------------------
(* Recover, one step per disk effect. *)

RecoverEnds == rpc' = "none" /\ rec' = NoRec

\* parseStream reads the file; an out-of-sequence stream is refused.
RecoverParse ==
    /\ dir /\ rpc = "none" /\ SeqContiguous(log)
    /\ rec' = [events |-> log, tail |-> tail, man |-> None]
    /\ rpc' = "gate"
    /\ UNCHANGED <<disk, writer, faults>>

\* isLive, the in-process registry of writers.
isLive == live

\* The live-writer check, made after the parse.
RecoverGate ==
    /\ rpc = "gate"
    /\ \/ isLive /\ RecoverEnds
       \/ /\ ~isLive
          /\ rpc' = IF rec.tail # 0 THEN "tail" ELSE "load"
          /\ UNCHANGED rec
    /\ UNCHANGED <<disk, writer, faults>>

SavedAt(n) == \E s \in saved : s.at = n

\* The tail is kept in events.torn.<n>, n the number of committed entries,
\* unless a file of that name is there already.  os.WriteFile creates it
\* first (bytes = 0: not the whole tail) and fills it next.
RecoverCreateTorn ==
    /\ rpc = "tail"
    /\ IF SavedAt(Len(rec.events))
       THEN rpc' = "truncate" /\ UNCHANGED saved
       ELSE /\ rpc' = "fill"
            /\ saved' = saved \cup {[at |-> Len(rec.events), bytes |-> 0]}
    /\ UNCHANGED <<dir, log, tail, manifest, objects, tears, rec, writer, faults>>

RecoverFillTorn ==
    /\ rpc = "fill"
    /\ \/ /\ saved' = (saved \ {[at |-> Len(rec.events), bytes |-> 0]})
                        \cup {[at |-> Len(rec.events), bytes |-> rec.tail]}
          /\ rpc' = "truncate"
          /\ UNCHANGED <<rec, faults>>
       \/ Fault /\ RecoverEnds /\ UNCHANGED saved
    /\ UNCHANGED <<dir, log, tail, manifest, objects, tears, writer>>

\* Mutant: the last committed entry is cut off with the tail.
FrontierOneShort == IF Len(rec.events) = 0 THEN 0 ELSE Len(rec.events) - 1

\* Where sound framing ended when the stream was parsed.
CommittedLen == Len(rec.events)

\* os.Truncate to the parsed frontier, with a failure before or after it.
RecoverTruncate ==
    /\ rpc = "truncate"
    /\ \/ /\ log' = SubSeq(log, 1, CommittedLen) /\ tail' = 0
          /\ \/ rpc' = "load" /\ UNCHANGED <<rec, faults>>
             \/ Fault /\ RecoverEnds
       \/ Fault /\ RecoverEnds /\ UNCHANGED <<log, tail>>
    /\ UNCHANGED <<dir, saved, manifest, objects, tears, writer>>

\* Recover goes on only with a state the stream explains: it refuses an empty
\* record and a manifest that is ahead of its stream.
Recoverable(m) == statusExplained(m.status, rec.events)

\* The manifest, or its reconstruction from the CREATED event.
RecoverLoad ==
    /\ rpc = "load"
    /\ LET m == IF manifest = None THEN FreshManifest ELSE manifest IN
       IF Recoverable(m)
       THEN rec' = [rec EXCEPT !.man = m] /\ rpc' = "decide"
       ELSE RecoverEnds
    /\ UNCHANGED <<disk, writer, faults>>

\* Mutant: recovery looks at the manifest alone and misses the decision.
DecisionOverlooked == FALSE

\* Case 1: the stream holds a terminal decision the manifest does not show.
Unprojected ==
    LET last == lastLifecycleEvent(rec.events) IN
    terminal(last) /\ rec.man.status # last

\* Case 2: a consistent terminal record, nothing to do.
RecoverClean ==
    /\ rpc = "decide" /\ ~Unprojected /\ terminal(rec.man.status)
    /\ RecoverEnds
    /\ UNCHANGED <<disk, writer, faults>>

RecoverAppend(e, committed, events) ==
    /\ \/ /\ log' = Landed(e) /\ rpc' = committed
          /\ rec' = [rec EXCEPT !.events = events]
          /\ UNCHANGED <<tail, tears, faults>>
       \/ Fault /\ FailedAppend(e) /\ RecoverEnds
    /\ UNCHANGED <<dir, saved, manifest, objects, writer>>

\* The recovery event: "projection-reconciled" (case 1; the binding stays
\* the parsed prefix) or "failed-partial" (case 3).
RecoverEvidence ==
    /\ rpc = "decide" /\ (Unprojected \/ ~terminal(rec.man.status))
    /\ LET e == Plain(Len(rec.events), "recovery", None) IN
       IF Unprojected
       THEN RecoverAppend(e, "reconcile", rec.events)
       ELSE RecoverAppend(e, "partial", Append(rec.events, e))

RecoverFailedPartial ==
    /\ rpc = "partial"
    /\ LET e == Lifecycle(Len(rec.events), "FAILED_PARTIAL") IN
       RecoverAppend(e, "reconcile", Append(rec.events, e))

\* Mutant: the binding counts an event its summary does not cover.
ReconciledWithItself ==
    [rec.man EXCEPT !.status = lastLifecycleEvent(rec.events),
                    !.count = Len(log), !.sum = rec.events]

\* Both cases end by projecting the stream's last decision, bound to the
\* entries Recover parsed (case 1) or parsed and appended (case 3).
Reconciled ==
    [rec.man EXCEPT !.status = lastLifecycleEvent(rec.events),
                    !.count = Len(rec.events), !.sum = rec.events]

RecoverProject ==
    /\ rpc = "reconcile"
    /\ \/ WriteManifest(Reconciled) /\ UNCHANGED faults
       \/ Fault /\ FailedWriteManifest(Reconciled)
    /\ RecoverEnds
    /\ UNCHANGED <<dir, log, tail, saved, objects, tears, writer>>

-----------------------------------------------------------------------------
\* The process dies: disk stays as it is, everything in memory is gone.
Crash ==
    /\ Fault
    /\ ForgetHandle
    /\ RecoverEnds
    /\ UNCHANGED <<disk, acked>>

WriterNext ==
    \/ CreateTask \/ CreatedEvent
    \/ \E ref \in Objects \cup {None} : AppendEvent(ref)
    \/ \E to \in Statuses : Transition(to)
    \/ \E addr \in Objects : BindArtifact(addr) \/ StoreObject(addr)
    \/ FlagContamination \/ Project \/ Register \/ Close

RecoverSteps ==
    \/ RecoverGate \/ RecoverCreateTorn \/ RecoverFillTorn
    \/ RecoverTruncate \/ RecoverLoad \/ RecoverClean \/ RecoverEvidence
    \/ RecoverFailedPartial \/ RecoverProject

\* Recover is exported: here it may be asked for any record that has a
\* directory, between two operations of an open handle as well, where it is
\* refused.  What Open's sweep asks for is in StartupSweep.
ColdRecovery == pc \in {"none", "idle"} /\ RecoverParse

Next == (rpc = "none" /\ WriterNext) \/ ColdRecovery \/ RecoverSteps \/ Crash

Spec == Init /\ [][Next]_vars

-----------------------------------------------------------------------------
(* Properties. *)

\* An operation in progress and the event it has committed.
Operations ==
    {NoOp} \cup [kind : {"create", "append"}, ev : Event]
           \cup [kind : {"transition"}, ev : {e \in Event : e.to \in Statuses}]
           \cup [kind : {"bind"}, ev : {e \in Event : e.ref \in Objects}]

TypeOK ==
    /\ dir \in BOOLEAN /\ live \in BOOLEAN /\ broken \in BOOLEAN
    /\ log \in Seq(Event) /\ chain \in Seq(Event)
    /\ tail \in Nat /\ tears \in Nat /\ faults \in Nat
    /\ saved \in SUBSET [at : Nat, bytes : Nat]
    /\ manifest \in Manifest \cup {None} /\ mem \in Manifest
    /\ objects \subseteq Objects /\ acked \subseteq Event
    /\ pc \in {"none", "create", "idle", "flag", "project", "register"}
    /\ op \in Operations
    /\ rpc \in {"none", "gate", "tail", "fill", "truncate", "load", "decide",
                "partial", "reconcile"}
    /\ rec \in [events : Seq(Event), tail : Nat, man : Manifest \cup {None}]

\* Every event whose operation returned without error stays in the stream, at
\* the sequence number it was given, whatever crashes, fails or is recovered.
AckedEventsSurvive ==
    \A e \in acked : e.seq + 1 \in DOMAIN log /\ log[e.seq + 1] = e

\* The stream has one appender at a time: a writer and a recovery that both
\* appended would leave two entries of the same sequence number.
OneAppender == SeqContiguous(log)

\* The committed stream walks the closed lifecycle machine: it begins at
\* CREATED and no decision follows a terminal one, although the writer, a
\* failed writer's unacknowledged frame and recovery all append decisions.
LegalLifecycle == LegalWalk(log)

\* A settled record is final: once the manifest shows a terminal status,
\* neither the writer nor any later recovery pass changes stream or manifest.
SettledIsFinal ==
    [][manifest # None /\ terminal(manifest.status)
           => UNCHANGED <<log, manifest>>]_vars

\* recovery.go's promise: the bytes of every torn write are still at the end of
\* the stream or whole in a file of their own.
TornTailsPreserved ==
    \A t \in 1 .. tears : tail = t \/ \E s \in saved : s.bytes = t

\* The stream is append-only: no step removes or rewrites a committed entry.
AppendOnly ==
    [][Len(log) <= Len(log') /\ SubSeq(log', 1, Len(log)) = log]_vars

=============================================================================
