------------------------------ MODULE Contracts ------------------------------
(***************************************************************************)
(* L10, the pure half: verification contracts and their registry, the      *)
(* evaluator, the canonicalization of a report and the reconstruction of   *)
(* one evaluation (src/harness/verification).  A contract's bytes, its     *)
(* SHA-256 and its parsed value are one value here: two contracts are      *)
(* equal exactly when their bytes are.  Syntax that a parser refuses       *)
(* (duplicate keys, unknown fields, trailing content, a name that does not *)
(* match) is the flag "form" of the value.                                 *)
(***************************************************************************)
EXTENDS Naturals, Sequences, FiniteSets

CONSTANTS
    L4,             \* the tool registry in force: [hash, eligible, tools]
    MaxConfig,      \* the largest inline configuration, in abstract size
    Absent          \* what is not there: a file, an object, a contract

Mapped      == {"PASS", "FAIL", "INCONCLUSIVE"}
Unavailable == {"evidence-unresolvable", "no-canonical-result",
                "execution-unavailable"}
Invalid     == {"evidence-inadmissible", "result-out-of-mapping",
                "provenance-incomplete", "config-mismatch",
                "nondeterminism-detected"}
provenanceRequired == {"execution_record", "raw_output", "canonical_result"}
ReportFields == {"finding", "remediation", "evidence"}

-----------------------------------------------------------------------------
(* Contracts. *)

slotsValid(slots) ==
    /\ Len(slots) > 0
    /\ \A i, j \in DOMAIN slots : slots[i].name = slots[j].name => i = j
    /\ \A i \in DOMAIN slots : /\ slots[i].kind = "artifact"
                               /\ slots[i].task_bound
                               /\ slots[i].required

checkProvenance(got) ==
    /\ Len(got) = Cardinality(provenanceRequired)
    /\ provenanceRequired \subseteq {got[i] : i \in DOMAIN got}

ParseContract(c) ==
    /\ c # Absent
    /\ c.form
    /\ c.version >= 1
    /\ slotsValid(c.slots)
    /\ c.config.object /\ c.config.size <= MaxConfig
    /\ DOMAIN c.mapping # {} /\ "" \notin DOMAIN c.mapping
    /\ \A d \in DOMAIN c.mapping : c.mapping[d] \in Mapped
    /\ checkProvenance(c.provenance)

-----------------------------------------------------------------------------
(* The registry: a sequence of entries, whose identity is name@version. *)

Key(e) == <<e.name, e.version>>

LoadRegistry(r) ==
    /\ r # Absent
    /\ r.form
    /\ \A i \in DOMAIN r.entries :
         /\ r.entries[i].version >= 1
         /\ r.entries[i].path # ""
         /\ r.entries[i].state \in {"active", "withdrawn"}
    /\ \A i, j \in DOMAIN r.entries :
         Key(r.entries[i]) = Key(r.entries[j]) => i = j

Entries(r) == {r.entries[i] : i \in DOMAIN r.entries}

(* What a bug would leave out of the wall: the binding's contract hash. *)
KeepsNames(r, prior) ==
    \A p \in Entries(prior) : \E e \in Entries(r) :
        /\ Key(e) = Key(p)
        /\ p.state = "withdrawn" => e.state = "withdrawn"

CheckAppendOnly(r, prior) ==
    \A p \in Entries(prior) : \E e \in Entries(r) :
        /\ Key(e) = Key(p)
        /\ e.contract = p.contract
        /\ p.state = "withdrawn" => e.state = "withdrawn"

ParseRef(ref) == ref.exact /\ ref.version >= 1

VerifierEligible(capability, hash) ==
    hash = L4.hash /\ capability \in L4.eligible

(* "" when the reference resolves to the contract c the file holds, else   *)
(* the class of the refusal, in the order of the code's checks.            *)
Resolve(r, ref, disk) ==
    LET named == {e \in Entries(r) : Key(e) = <<ref.name, ref.version>>}
        entry == CHOOSE e \in named : TRUE
        c     == disk[entry.path]
    IN IF ~ ParseRef(ref) THEN "not-exact"
       ELSE IF named = {} THEN "unregistered"
       ELSE IF entry.state = "withdrawn" THEN "withdrawn"
       ELSE IF ~ ParseContract(c) THEN "contract-unreadable"
       ELSE IF c # entry.contract THEN "hash-mismatch"
       ELSE IF <<c.name, c.version>> # Key(entry) THEN "identity"
       ELSE IF ~ VerifierEligible(c.capability, c.registry) THEN "ineligible"
       ELSE ""

ResolvedContract(r, ref, disk) ==
    disk[(CHOOSE e \in Entries(r) : Key(e) = <<ref.name, ref.version>>).path]

-----------------------------------------------------------------------------
(* The evaluator: the first failing stage decides the reserved outcome. *)

Declared(c) == {c.slots[i].name : i \in DOMAIN c.slots}

admissible(c, refs) ==
    /\ \A i \in DOMAIN refs : /\ refs[i].slot \in Declared(c)
                              /\ refs[i].inTask /\ refs[i].object # Absent
    /\ \A i, j \in DOMAIN refs : refs[i].slot = refs[j].slot => i = j
    /\ Declared(c) \subseteq {refs[i].slot : i \in DOMAIN refs}

(* The reserved outcome of the first stage that fails, or the mapped one. *)
Stage(c, refs, facts) ==
    IF ~ admissible(c, refs) THEN <<"INVALID", "evidence-inadmissible">>
    ELSE IF \E i \in DOMAIN refs : ~ refs[i].resolvable
         THEN <<"UNAVAILABLE", "evidence-unresolvable">>
    ELSE IF facts.executionRef = 0
         THEN <<"UNAVAILABLE", "execution-unavailable">>
    ELSE IF facts.result = "" \/ facts.canonical = Absent
         THEN <<"UNAVAILABLE", "no-canonical-result">>
    ELSE IF facts.raw = Absent THEN <<"INVALID", "provenance-incomplete">>
    ELSE IF facts.config # c.config THEN <<"INVALID", "config-mismatch">>
    ELSE IF facts.result \notin DOMAIN c.mapping
         THEN <<"INVALID", "result-out-of-mapping">>
    ELSE <<c.mapping[facts.result], "">>

(* The record names the objects only from the stage that found them.       *)
Evaluate(c, refs, facts) ==
    LET verdict == Stage(c, refs, facts)
        reached == verdict[2] \notin
                     Unavailable \cup {"evidence-inadmissible"}
    IN [contract |-> c, capability |-> c.capability, registry |-> c.registry,
        executionRef |-> facts.executionRef,
        raw       |-> IF reached THEN facts.raw ELSE Absent,
        canonical |-> IF reached THEN facts.canonical ELSE Absent,
        result    |-> IF reached THEN facts.result ELSE "",
        outcome |-> verdict[1], reason |-> verdict[2]]

CheckReasonClass(ev) ==
    \/ ev.outcome \in Mapped /\ ev.reason = ""
    \/ ev.outcome = "UNAVAILABLE" /\ ev.reason \in Unavailable
    \/ ev.outcome = "INVALID" /\ ev.reason \in Invalid

(* A report is its length and the required fields it fills with text.      *)
canonReport(raw) ==
    IF raw.size > 0 /\ ReportFields \subseteq raw.filled
    THEN "report_valid" ELSE "report_invalid"

-----------------------------------------------------------------------------
(* Reconstruction of one record from the objects a store still returns.    *)
(* Bytes of length zero count as missing, whether stored or not.           *)

Get(store, object) == IF object \in store THEN object ELSE Absent

Missing(bytes) == bytes = Absent \/ bytes.size = 0

contractAgrees(record, c) ==
    /\ c # Absent /\ c = record.contract
    /\ ParseContract(c)
    /\ record.capability = c.capability

chainAgrees(record, c, raw, canonical) ==
    /\ ~ Missing(raw)
    /\ canonical # Absent /\ canonical.result = record.result
    /\ record.result = canonReport(raw)
    /\ record.result \in DOMAIN c.mapping
    /\ record.outcome = c.mapping[record.result]

Reconstruct(record, c, raw, canonical) ==
    /\ contractAgrees(record, c)
    /\ record.outcome \in Mapped => chainAgrees(record, c, raw, canonical)
=============================================================================
