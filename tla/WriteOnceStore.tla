--------------------------- MODULE WriteOnceStore ---------------------------
(***************************************************************************)
(* What a content-addressed store promises its callers: an object is       *)
(* published whole or not at all, an acknowledged object stays, and only   *)
(* an object nobody was promised may be lost.  There is no update and no   *)
(* delete.                                                                 *)
(***************************************************************************)
CONSTANT Objects    \* an object and its address are the same thing

VARIABLES
    present,    \* the objects a reader would be given
    acked       \* the objects some caller was told are stored

Init == present = {} /\ acked = {}

Publish(a) == present' = present \cup {a} /\ UNCHANGED acked

Acknowledge(a) ==
    a \in present /\ acked' = acked \cup {a} /\ UNCHANGED present

\* A power failure takes some of what was not acknowledged.
Lose ==
    /\ present' \in SUBSET present /\ acked \subseteq present'
    /\ UNCHANGED acked

Next == Lose \/ \E a \in Objects : Publish(a) \/ Acknowledge(a)

Spec == Init /\ [][Next]_<<present, acked>>

=============================================================================
