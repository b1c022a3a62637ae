--------------------------- MODULE MCVerification ---------------------------
(* Verification for TLC: two tasks, one contract registered at the start,  *)
(* a second that may be registered, and reports that fill no, some or all  *)
(* of the fields.                                                          *)
EXTENDS Verification, TLC

CONSTANTS t1, t2

MCTasks == {t1, t2}
MCL4 == [hash |-> "h", eligible |-> {"verify_report", "verify_build"}]

Slot(n) == [name |-> n, kind |-> "artifact", task_bound |-> TRUE,
            required |-> TRUE]
Contract(v, cap, hash, slots, mapping) ==
    [form |-> TRUE, name |-> "c", version |-> v, capability |-> cap,
     registry |-> hash, slots |-> slots, config |-> [object |-> TRUE, size |-> 1],
     mapping |-> mapping,
     provenance |-> <<"execution_record", "raw_output", "canonical_result">>]

Both == [d \in {"report_valid", "report_invalid"} |->
           IF d = "report_valid" THEN "PASS" ELSE "FAIL"]
Graded   == Contract(1, "verify_report", "h", <<Slot("a")>>, Both)
Lenient  == Contract(1, "verify_report", "h", <<Slot("a")>>,
                     [d \in {"report_valid"} |-> "INCONCLUSIVE"])
Building == Contract(2, "verify_build", "h", <<Slot("a")>>, Both)

Entry(v, c) == [name |-> "c", version |-> v, contract |-> c,
                path |-> IF v = 1 THEN "p1" ELSE "p2", state |-> "active"]

MCFirstRegistry == [form |-> TRUE, entries |-> <<Entry(1, Graded)>>]
MCFirstDisk == [p \in {"p1", "p2"} |-> IF p = "p1" THEN Graded ELSE Absent]
MCRegistrable == {Entry(2, Building)}
MCContents == {Lenient}

Ref(v) == [name |-> "c", version |-> v, exact |-> TRUE]
Call(n, ref) == [name |-> n, ref |-> ref, parsed |-> TRUE]
MCCalls == {Call("verify_report", Ref(1)), Call("verify_build", Ref(2))}
MCReports == {[size |-> 0, filled |-> {}], [size |-> 2, filled |-> ReportFields]}

MCMaxCalls == [t \in MCTasks |-> IF t = t1 THEN 2 ELSE 1]
=============================================================================
