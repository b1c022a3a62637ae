---------------------------- MODULE ObjectStore ----------------------------
(***************************************************************************)
(* StoreObject (src/harness/state/store.go) and Put                        *)
(* (src/harness/execution/store.go), the same publication discipline:      *)
(*                                                                         *)
(*   write temp, fsync temp, atomic no-replace link, fsync directory       *)
(*                                                                         *)
(* by several writers at once, each step able to fail, the processes able  *)
(* to die and the power to fail between any two of them.  A writer is a    *)
(* task: with what its calls confirmed it appends events to its record,    *)
(* whose door (src/harness/state/sink.go) asks HasObject once more.  An    *)
(* address is the object stored there: the hash is collision free.         *)
(*                                                                         *)
(* The filesystem is what the code expects of it: a link takes effect or   *)
(* not, a directory entry outlives a power failure once its directory is   *)
(* synced, bytes do once the file is synced, and what was not synced may   *)
(* or may not.                                                             *)
(***************************************************************************)
EXTENDS Naturals, FiniteSets

CONSTANTS
    Writers,
    Objects,
    MaxCalls,   \* bound: the calls in one behaviour
    MaxFaults   \* bound: failed steps, crashes and power failures

ASSUME BoundAssumption == MaxCalls \in Nat /\ MaxFaults \in Nat

VARIABLES
    linked,     \* the addresses that are occupied
    whole,      \* of those, the ones that hold all their bytes
    flushed,    \* and the ones whose bytes are on the disk
    durable,    \* the ones whose directory entry is
    tmp,        \* each writer's temporary file
    pc,         \* where each writer's call is
    obj,        \* the object it stores
    out,        \* what its last call answered
    held,       \* the addresses its calls returned to it
    refs,       \* the objects that committed events refer to
    acked,      \* ghost: the objects some call acknowledged
    calls, faults

files  == <<linked, whole, flushed, durable>>
record == <<held, refs>>
vars   == <<files, tmp, pc, obj, out, record, acked, calls, faults>>

Init ==
    /\ linked = {} /\ whole = {} /\ flushed = {} /\ durable = {}
    /\ tmp = [w \in Writers |-> "none"]
    /\ pc = [w \in Writers |-> "idle"]
    /\ obj \in [Writers -> Objects]
    /\ out = [w \in Writers |-> "none"]
    /\ held = [w \in Writers |-> {}] /\ refs = {}
    /\ acked = {} /\ calls = 0 /\ faults = 0

Fault == faults < MaxFaults /\ faults' = faults + 1

Goes(w, where) == pc' = [pc EXCEPT ![w] = where] /\ UNCHANGED out

\* The call ends; its temporary file is removed.
Returns(w, answer) ==
    /\ pc' = [pc EXCEPT ![w] = "idle"]
    /\ out' = [out EXCEPT ![w] = answer]
    /\ tmp' = [tmp EXCEPT ![w] = "none"]

Begin(w) ==
    /\ pc[w] = "idle" /\ calls < MaxCalls /\ calls' = calls + 1
    /\ \E a \in Objects : obj' = [obj EXCEPT ![w] = a]
    /\ Goes(w, "look")
    /\ UNCHANGED <<files, tmp, record, acked, faults>>

\* Any step may fail; the caller gets a typed error and may call again.
Fails(w) ==
    /\ pc[w] \notin {"idle", "look"} /\ Fault
    /\ Returns(w, "failed")
    /\ UNCHANGED <<files, obj, record, acked, calls>>

\* An occupied address is verified before it is confirmed.  Bytes that
\* cannot be read back are reported as different ones.
Occupied(w) ==
    \/ obj[w] \in whole /\ Goes(w, "dirsync") /\ UNCHANGED <<tmp, faults>>
    \/ obj[w] \notin whole /\ Returns(w, "corrupt") /\ UNCHANGED faults
    \/ Fault /\ Returns(w, "corrupt")

\* An address that StoreObject cannot read is treated as a free one.
Look(w) ==
    /\ pc[w] = "look"
    /\ \/ obj[w] \in linked /\ Occupied(w)
       \/ obj[w] \in linked /\ Fault /\ Goes(w, "write") /\ UNCHANGED tmp
       \/ obj[w] \notin linked /\ Goes(w, "write") /\ UNCHANGED <<tmp, faults>>
    /\ UNCHANGED <<files, obj, record, acked, calls>>

\* Mutant: the bytes are linked without a sync.
WriteUnsynced(w) ==
    /\ pc[w] = "write"
    /\ tmp' = [tmp EXCEPT ![w] = "written"] /\ Goes(w, "link")
    /\ UNCHANGED <<files, obj, record, acked, calls, faults>>

Write(w) ==
    /\ pc[w] = "write"
    /\ tmp' = [tmp EXCEPT ![w] = "written"] /\ Goes(w, "sync")
    /\ UNCHANGED <<files, obj, record, acked, calls, faults>>

Sync(w) ==
    /\ pc[w] = "sync"
    /\ tmp' = [tmp EXCEPT ![w] = "synced"] /\ Goes(w, "link")
    /\ UNCHANGED <<files, obj, record, acked, calls, faults>>

\* The link never replaces: an address taken meanwhile is verified.
Link(w) ==
    /\ pc[w] = "link"
    /\ \/ obj[w] \in linked /\ Occupied(w) /\ UNCHANGED files
       \/ /\ obj[w] \notin linked /\ Goes(w, "dirsync")
          /\ linked' = linked \cup {obj[w]}
          /\ whole' = whole \cup {obj[w]}
          /\ flushed' = IF tmp[w] = "synced" THEN flushed \cup {obj[w]}
                                             ELSE flushed
          /\ UNCHANGED <<durable, tmp, faults>>
    /\ UNCHANGED <<obj, record, acked, calls>>

\* The caller is given the address.
Confirms(w) ==
    /\ held' = [held EXCEPT ![w] = @ \cup {obj[w]}]
    /\ acked' = acked \cup {obj[w]}

\* Mutant: an object that is there is acknowledged without a sync.
AckOnSight(w) ==
    /\ pc[w] = "dirsync"
    /\ Returns(w, "ok")
    /\ durable' = IF tmp[w] = "none" THEN durable ELSE durable \cup {obj[w]}
    /\ Confirms(w)
    /\ UNCHANGED <<linked, whole, flushed, obj, refs, calls, faults>>

\* Whoever published it, each acknowledgement has a sync of its own.
DirSync(w) ==
    /\ pc[w] = "dirsync"
    /\ Returns(w, "ok")
    /\ durable' = durable \cup {obj[w]}
    /\ Confirms(w)
    /\ UNCHANGED <<linked, whole, flushed, obj, refs, calls, faults>>

\* os.Stat: the address is occupied, be its entry durable or not.
HasObject(a) == a \in linked

\* Mutant: an event refers to whatever the record's door lets through.
ReferOnSight(w) ==
    /\ pc[w] = "idle"
    /\ \E a \in Objects : HasObject(a) /\ refs' = refs \cup {a}
    /\ UNCHANGED <<files, tmp, pc, obj, out, held, acked, calls, faults>>

\* A task appends an event with the addresses it holds, past the door.  The
\* frame is synced, and may be on the disk although the append failed.
Refer(w) ==
    /\ pc[w] = "idle"
    /\ \E a \in held[w] : HasObject(a) /\ refs' = refs \cup {a}
    /\ UNCHANGED <<files, tmp, pc, obj, out, held, acked, calls, faults>>

\* A writer's process dies; the system and its page cache live.
Crash(w) ==
    /\ pc[w] # "idle" /\ Fault
    /\ Returns(w, "none") /\ held' = [held EXCEPT ![w] = {}]
    /\ UNCHANGED <<files, obj, refs, acked, calls>>

\* The power fails: every process dies, what was not synced may be lost.
PowerFails ==
    /\ Fault
    /\ \E kept \in SUBSET linked, intact \in SUBSET whole :
         /\ linked \cap durable \subseteq kept
         /\ whole \cap flushed \subseteq intact
         /\ linked' = kept /\ whole' = kept \cap intact
         /\ flushed' = kept \cap flushed /\ durable' = kept \cap durable
    /\ pc' = [w \in Writers |-> "idle"] /\ out' = [w \in Writers |-> "none"]
    /\ tmp' = [w \in Writers |-> "none"] /\ held' = [w \in Writers |-> {}]
    /\ UNCHANGED <<obj, refs, acked, calls>>

Step(w) == Look(w) \/ Write(w) \/ Sync(w) \/ Link(w) \/ DirSync(w) \/ Fails(w)

Next ==
    \/ PowerFails
    \/ \E w \in Writers : Begin(w) \/ Step(w) \/ Refer(w) \/ Crash(w)

Spec == Init /\ [][Next]_vars

-----------------------------------------------------------------------------
(* Properties. *)

Places == {"idle", "look", "write", "sync", "link", "dirsync"}

\* The shape of the state.
TypeOK ==
    /\ linked \subseteq Objects /\ whole \subseteq linked
    /\ flushed \subseteq linked /\ durable \subseteq linked
    /\ tmp \in [Writers -> {"none", "written", "synced"}]
    /\ pc \in [Writers -> Places] /\ obj \in [Writers -> Objects]
    /\ out \in [Writers -> {"none", "ok", "failed", "corrupt"}]
    /\ held \in [Writers -> SUBSET Objects] /\ refs \subseteq Objects
    /\ acked \subseteq Objects /\ calls \in Nat /\ faults \in Nat

\* An address is absent or complete: no failure, crash or race of writers
\* leaves one that StoreObject and Put would refuse for ever.
NeverPoisoned == linked \subseteq whole

\* The objects GetObject would return.
Readable == linked \cap whole

Promise == INSTANCE WriteOnceStore WITH present <- Readable

\* The store does what WriteOnceStore promises: whole objects appear, and an
\* acknowledgement, of whoever's publication, outlives a power failure.
KeepsPromise == Promise!Spec

\* What a committed event refers to can be read back, though the power failed
\* since and another task published it.  The door's HasObject alone would not
\* do: it sees what is linked and may be lost.  It is that every caller refers
\* to what StoreObject returned to it, after a directory sync of its own
\* (sink.go:101-110, store.go:90-103).
ReferencesSurvive == refs \subseteq Readable

\* What HasObject's comment and the door's error text say of a present address
\* (store.go:173, sink.go:109).
PresentIsDurable == \A a \in Objects : HasObject(a) => a \in durable

=============================================================================
