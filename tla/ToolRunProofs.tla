--------------------------- MODULE ToolRunProofs ---------------------------
(***************************************************************************)
(* ToolRun, for any registry, grant, calls and workspaces: the grant bounds *)
(* what runs, a patch is a transaction while nothing else writes, and the  *)
(* records explain the artifact outside what a job left to itself names.   *)
(***************************************************************************)
EXTENDS ToolRun, FiniteSetTheorems, SequenceTheorems, WellFoundedInduction, TLAPS

CallTools == Tools \cup {c.tool : c \in Calls}
Data      == Contents \cup {Absent, Torn}
Dirs      == [Files -> Data]
Places    == {"validate", "snapshot", "apply", "rollback", "done", "refused"}
Changes   == [path : Files, op : {"write", "delete", "rename-from", "rename-to"},
              old : Data \cup {""}, new : Data]

Jobs == [tool : CallTools, ops : Seq(Operations), at : Places, next : Nat,
         journal : Seq(Files \X Data), changes : Seq(Changes),
         left : BOOLEAN, before : Dirs]

Audits == [tool : CallTools, decision : {"denied", "authorized", "error", "timeout"},
           changes : Seq(Changes)]

\* The operation of a job that has one before it is an operation of its call.
Placed(job) ==
    /\ job.at = "validate" => job.next = 1 /\ job.journal = << >> /\ job.changes = << >>
    /\ job.at \in {"snapshot", "apply"} => job.next \in DOMAIN job.ops
    /\ job.at \in {"snapshot", "rollback"} => Transactional(job)
    /\ ~Transactional(job) => Len(job.ops) <= 1

TypeOK ==
    /\ files \in Dirs
    /\ jobs \in Seq(Jobs) /\ \A j \in DOMAIN jobs : Placed(jobs[j])
    /\ trace \in Seq(Audits)
    /\ state \in [calls : [CallTools -> Nat], total : Nat]
    /\ walk \in {"turn", "call", "failed", "ended"}
    /\ walk \in {"call", "failed"} => jobs # << >>
    /\ unseen \in BOOLEAN

(***************************************************************************)
(* What the operators return.                                              *)
(***************************************************************************)

LEMMA ShortSeqs ==
  /\ \A S : \A x \in S : <<x>> \in Seq(S) /\ Len(<<x>>) = 1
  /\ \A S : \A x, y \in S : <<x, y>> \in Seq(S) /\ Len(<<x, y>>) = 2
  OBVIOUS

LEMMA FunctionIsSeq ==
  ASSUME NEW S, NEW n \in Nat, NEW f \in [1 .. n -> S]
  PROVE  f \in Seq(S) /\ Len(f) = n
  OBVIOUS

LEMMA FrontShapes ==
  ASSUME NEW S, NEW s \in Seq(S), s # << >>
  PROVE  /\ Front(s) \in Seq(S) /\ Len(Front(s)) = Len(s) - 1
         /\ DOMAIN Front(s) = 1 .. Len(s) - 1 /\ Last(s) \in S
         /\ \A i \in 1 .. Len(s) - 1 : Front(s)[i] = s[i]
  <1>1. Len(s) \in Nat \ {0} /\ DOMAIN s = 1 .. Len(s)
    OBVIOUS
  <1>2. \A i \in 1 .. Len(s) - 1 : s[i] \in S
    BY <1>1
  <1> QED BY <1>1, <1>2, SubSeqProperties, LenProperties DEF Front, Last

LEMMA OperationShapes ==
  ASSUME NEW op \in Operations
  PROVE  \/ op.op = "write" /\ op.path \in Files /\ op.content \in Contents
         \/ op.op = "delete" /\ op.path \in Files
         \/ op.op = "rename" /\ op.from \in Files /\ op.to \in Files
  BY DEF Operations

LEMMA TouchedShapes ==
  ASSUME NEW op \in Operations
  PROVE  /\ Touched(op) \in Seq(Files) /\ DOMAIN Touched(op) \in {1 .. 1, 1 .. 2}
         /\ op.op # "rename" => Touched(op) = <<op.path>>
         /\ op.op = "rename" => Touched(op) = <<op.from, op.to>>
         /\ Touched(op)[1] \in Files
  <1>1. CASE op.op = "rename"
    <2>1. Touched(op) = <<op.from, op.to>>
      BY <1>1 DEF Touched
    <2> QED BY <1>1, <2>1, OperationShapes
  <1>2. CASE op.op # "rename"
    <2>1. Touched(op) = <<op.path>>
      BY <1>2 DEF Touched
    <2> QED BY <1>2, <2>1, OperationShapes
  <1> QED BY <1>1, <1>2

LEMMA EffectShapes ==
  ASSUME NEW op, NEW fs
  PROVE  /\ op.op = "write" => Effect(fs, op) = [fs EXCEPT ![op.path] = op.content]
         /\ op.op = "delete" => Effect(fs, op) = [fs EXCEPT ![op.path] = Absent]
         /\ op.op = "rename" =>
              Effect(fs, op) = [fs EXCEPT ![op.from] = Absent, ![op.to] = fs[op.from]]
  BY DEF Effect

LEMMA EffectTyped ==
  ASSUME NEW op \in Operations, NEW fs \in Dirs
  PROVE  Effect(fs, op) \in Dirs
  BY OperationShapes, EffectShapes DEF Dirs, Data

LEMMA RecordsShapes ==
  ASSUME NEW op
  PROVE  /\ op.op = "write" =>
              Records(op) = <<Change(op.path, "write", files[op.path], op.content)>>
         /\ op.op = "delete" =>
              Records(op) = <<Change(op.path, "delete", files[op.path], Absent)>>
         /\ op.op = "rename" =>
              Records(op) = <<Change(op.from, "rename-from", files[op.from], Absent),
                              Change(op.to, "rename-to", "", files[op.from])>>
  BY DEF Records

LEMMA RecordsTyped ==
  ASSUME NEW op \in Operations, files \in Dirs
  PROVE  Records(op) \in Seq(Changes)
  <1>1. ASSUME NEW p \in Files, NEW o \in {"write", "delete", "rename-from", "rename-to"},
               NEW old \in Data \cup {""}, NEW new \in Data
        PROVE  Change(p, o, old, new) \in Changes
    BY DEF Change, Changes
  <1>2. \A p \in Files : files[p] \in Data
    BY DEF Dirs
  <1>3. Absent \in Data /\ Contents \subseteq Data
    BY DEF Data
  <1>4. CASE op.op = "write" /\ op.path \in Files /\ op.content \in Contents
    <2>1. Change(op.path, "write", files[op.path], op.content) \in Changes
      BY <1>1, <1>2, <1>3, <1>4
    <2> QED BY <1>4, <2>1, RecordsShapes, ShortSeqs
  <1>5. CASE op.op = "delete" /\ op.path \in Files
    <2>1. Change(op.path, "delete", files[op.path], Absent) \in Changes
      BY <1>1, <1>2, <1>3, <1>5
    <2> QED BY <1>5, <2>1, RecordsShapes, ShortSeqs
  <1>6. CASE op.op = "rename" /\ op.from \in Files /\ op.to \in Files
    <2>1. /\ Change(op.from, "rename-from", files[op.from], Absent) \in Changes
          /\ Change(op.to, "rename-to", "", files[op.from]) \in Changes
      BY <1>1, <1>2, <1>3, <1>6
    <2> QED BY <1>6, <2>1, RecordsShapes, ShortSeqs
  <1> QED BY <1>4, <1>5, <1>6, OperationShapes

\* A step of one job leaves the others as they were.
LEMMA JobStep ==
  ASSUME jobs \in Seq(Jobs), NEW j \in DOMAIN jobs, NEW job \in Jobs,
         jobs' = [jobs EXCEPT ![j] = job]
  PROVE  /\ jobs' \in Seq(Jobs) /\ Len(jobs') = Len(jobs) /\ DOMAIN jobs' = DOMAIN jobs
         /\ jobs'[j] = job /\ \A i \in DOMAIN jobs : i # j => jobs'[i] = jobs[i]
  BY ExceptSeq, LenProperties

(***************************************************************************)
(* Folds.  FoldLeft is a recursive function over sets of positions; one    *)
(* that unrolls to it along a sequence exists and is unique up to any      *)
(* position, by induction on the positions.                                *)
(***************************************************************************)

Less == {ss \in Nat \X Nat : ss[1] < ss[2]}

LEMMA LessIsWellFounded == IsWellFoundedOn(Less, Nat)
  BY NatLessThanWellFounded, Zenon DEF OpToRel, Less

\* Induction, for the members of a set instead of a predicate.
LEMMA UpTo ==
  ASSUME NEW n \in Nat, NEW S, 0 \in S, \A k \in Nat : k < n /\ k \in S => k + 1 \in S
  PROVE  0 .. n \subseteq S
  <1> DEFINE T == {k \in Nat : k <= n /\ k \notin S}
  <1> SUFFICES ASSUME T # {} PROVE FALSE
    OBVIOUS
  <1>1. PICK x \in T : \A y \in T : ~(<<y, x>> \in Less)
    <2>1. T \subseteq Nat
      OBVIOUS
    <2> QED BY <2>1, LessIsWellFounded, WFMin, Zenon
  <1>2. \A y \in T : ~(y < x)
    BY <1>1 DEF Less
  <1>3. x # 0 /\ x - 1 \in Nat /\ x - 1 < n /\ x - 1 < x
    BY <1>1
  <1>4. x - 1 \in S
    BY <1>2, <1>3
  <1>5. (x - 1) + 1 \in S
    BY <1>3, <1>4
  <1> QED BY <1>1, <1>5

LEMMA MaxIs ==
  ASSUME NEW s \in SUBSET Int, NEW m \in s, \A y \in s : m >= y
  PROVE  Max(s) = m
  <1>1. Max(s) \in s /\ \A y \in s : Max(s) >= y
    BY DEF Max
  <1>2. Max(s) \in Int /\ m >= Max(s) /\ Max(s) >= m
    BY <1>1
  <1> QED BY <1>2

LEMMA PrefixMax ==
  ASSUME NEW k \in Nat
  PROVE  Max(1 .. k + 1) = k + 1 /\ (1 .. k + 1) \ {k + 1} = 1 .. k
  <1>1. 1 .. k + 1 \in SUBSET Int /\ k + 1 \in 1 .. k + 1 /\ \A y \in 1 .. k + 1 : k + 1 >= y
    OBVIOUS
  <1>2. Max(1 .. k + 1) = k + 1
    BY <1>1, MaxIs
  <1> QED BY <1>2

LEMMA MaxIn ==
  ASSUME NEW n \in Nat, NEW s \in SUBSET (1 .. n), s # {}
  PROVE  Max(s) \in 1 .. n
  <1> DEFINE S == {k \in Nat : \A t \in SUBSET (1 .. k) : t # {} => \E m \in t : \A y \in t : m >= y}
  <1>1. 0 \in S
    <2>1. 1 .. 0 = {}
      OBVIOUS
    <2> QED BY <2>1
  <1>2. ASSUME NEW k \in Nat, k < n, k \in S PROVE k + 1 \in S
    <2>1. ASSUME NEW t \in SUBSET (1 .. k + 1), t # {} PROVE \E m \in t : \A y \in t : m >= y
      <3>1. CASE k + 1 \in t
        <4>1. \A y \in t : k + 1 >= y
          OBVIOUS
        <4> QED BY <3>1, <4>1
      <3>2. CASE k + 1 \notin t
        <4>1. \A y \in t : y \in 1 .. k
          BY <3>2
        <4> QED BY <1>2, <2>1, <4>1
      <3> QED BY <3>1, <3>2
    <2> QED BY <2>1
  <1>3. 0 .. n \subseteq S
    <2> HIDE DEF S
    <2> QED BY <1>1, <1>2, UpTo
  <1>4. \E m \in s : \A y \in s : m >= y
    BY <1>3
  <1>5. Max(s) \in s
    BY <1>4 DEF Max
  <1> QED BY <1>5

\* The first k positions, and the last of them.
LEMMA PrefixOf ==
  ASSUME NEW n \in Nat, NEW k \in 1 .. n
  PROVE  /\ 1 .. k \in SUBSET (1 .. n) /\ 1 .. k # {}
         /\ Max(1 .. k) = k /\ (1 .. k) \ {k} = 1 .. k - 1
  <1>1. k - 1 \in Nat /\ (k - 1) + 1 = k
    OBVIOUS
  <1>2. \A i \in 1 .. k : i \in 1 .. n
    OBVIOUS
  <1>3. Max(1 .. k) = k /\ (1 .. k) \ {k} = 1 .. k - 1
    BY <1>1, PrefixMax
  <1>4. k \in 1 .. k
    OBVIOUS
  <1> QED BY <1>2, <1>3, <1>4

\* it is the fold from a by the functions step[1], ..., step[k].
Unrolls(it, V, a, step, k) ==
    /\ it \in [SUBSET (1 .. k) -> V]
    /\ \A s \in SUBSET (1 .. k) :
         it[s] = IF s = {} THEN a ELSE step[Max(s)][it[s \ {Max(s)}]]

LEMMA UnrollsOneMore ==
  ASSUME NEW V, NEW a \in V, NEW n \in Nat, NEW step \in [1 .. n -> [V -> V]],
         NEW k \in Nat, k < n, NEW it, Unrolls(it, V, a, step, k)
  PROVE  \E ext : Unrolls(ext, V, a, step, k + 1)
  <1> DEFINE ext == [s \in SUBSET (1 .. k + 1) |->
                       IF k + 1 \in s THEN step[k + 1][it[s \ {k + 1}]] ELSE it[s]]
  <1>1. \A s \in SUBSET (1 .. k + 1) : k + 1 \in s => Max(s) = k + 1
    <2> TAKE s \in SUBSET (1 .. k + 1)
    <2> HAVE k + 1 \in s
    <2>1. s \in SUBSET Int /\ \A y \in s : k + 1 >= y
      OBVIOUS
    <2> QED BY <2>1, MaxIs
  <1>2. \A s \in SUBSET (1 .. k + 1) : k + 1 \notin s => s \in SUBSET (1 .. k)
    <2> TAKE s \in SUBSET (1 .. k + 1)
    <2> HAVE k + 1 \notin s
    <2>1. \A i \in s : i \in 1 .. k
      OBVIOUS
    <2> QED BY <2>1
  <1>3. \A s \in SUBSET (1 .. k + 1) : s \ {k + 1} \in SUBSET (1 .. k)
    <2> TAKE s \in SUBSET (1 .. k + 1)
    <2>1. \A i \in s \ {k + 1} : i \in 1 .. k
      OBVIOUS
    <2> QED BY <2>1
  <1>4. ext \in [SUBSET (1 .. k + 1) -> V]
    <2>1. k + 1 \in 1 .. n
      OBVIOUS
    <2> QED BY <1>2, <1>3, <2>1 DEF Unrolls
  <1>5. ASSUME NEW s \in SUBSET (1 .. k + 1)
        PROVE  ext[s] = IF s = {} THEN a ELSE step[Max(s)][ext[s \ {Max(s)}]]
    <2>1. CASE k + 1 \in s
      <3>1. ext[s \ {k + 1}] = it[s \ {k + 1}]
        BY <1>3
      <3> QED BY <2>1, <3>1, <1>1
    <2>2. CASE k + 1 \notin s
      <3>1. s \in SUBSET (1 .. k) /\ s \ {Max(s)} \in SUBSET (1 .. k) /\ k + 1 \notin s \ {Max(s)}
        BY <2>2, <1>2
      <3>2. SUBSET (1 .. k) \subseteq SUBSET (1 .. k + 1)
        OBVIOUS
      <3>3. ext[s] = it[s] /\ ext[s \ {Max(s)}] = it[s \ {Max(s)}]
        BY <3>1, <3>2
      <3> QED BY <3>1, <3>3 DEF Unrolls
    <2> QED BY <2>1, <2>2
  <1> HIDE DEF ext
  <1>6. Unrolls(ext, V, a, step, k + 1)
    BY <1>4, <1>5 DEF Unrolls
  <1> QED BY <1>6

LEMMA UnrollsExists ==
  ASSUME NEW V, NEW a \in V, NEW n \in Nat, NEW step \in [1 .. n -> [V -> V]]
  PROVE  \E it : Unrolls(it, V, a, step, n)
  <1> DEFINE S == {k \in Nat : \E it : Unrolls(it, V, a, step, k)}
  <1>1. 0 \in S
    <2>1. 1 .. 0 = {}
      OBVIOUS
    <2>2. Unrolls([s \in SUBSET (1 .. 0) |-> a], V, a, step, 0)
      BY <2>1 DEF Unrolls
    <2> QED BY <2>2
  <1>2. \A k \in Nat : k < n /\ k \in S => k + 1 \in S
    BY UnrollsOneMore
  <1>3. 0 .. n \subseteq S
    <2> HIDE DEF S
    <2> QED BY <1>1, <1>2, UpTo
  <1> QED BY <1>3

\* x is where a walk from a by step[1], ..., step[n] arrives.
Arrives(V, a, step, n, x) ==
    \E g \in [0 .. n -> V] :
        /\ g[0] = a /\ g[n] = x
        /\ \A k \in 1 .. n : g[k] = step[k][g[k - 1]]

\* The fold over the first positions is such a walk.
LEMMA PrefixesArrive ==
  ASSUME NEW V, NEW a \in V, NEW n \in Nat, NEW step \in [1 .. n -> [V -> V]], NEW it,
         it[1 .. 0] = a,
         \A k \in 1 .. n : it[1 .. k - 1] \in V => it[1 .. k] = step[k][it[1 .. k - 1]]
  PROVE  Arrives(V, a, step, n, it[1 .. n])
  <1> DEFINE S == {k \in Nat : k <= n => it[1 .. k] \in V}
             g == [k \in 0 .. n |-> it[1 .. k]]
  <1>1. 0 \in S
    OBVIOUS
  <1>2. ASSUME NEW k \in Nat, k < n, k \in S PROVE k + 1 \in S
    <2>1. k + 1 \in 1 .. n /\ (k + 1) - 1 = k /\ it[1 .. k] \in V
      BY <1>2
    <2>2. it[1 .. k + 1] = step[k + 1][it[1 .. k]]
      BY <2>1
    <2> QED BY <2>1, <2>2
  <1>3. 0 .. n \subseteq S
    <2> HIDE DEF S
    <2> QED BY <1>1, <1>2, UpTo
  <1>4. g \in [0 .. n -> V]
    BY <1>3
  <1>5. \A k \in 1 .. n : g[k] = step[k][g[k - 1]]
    <2> TAKE k \in 1 .. n
    <2>1. k \in 0 .. n /\ k - 1 \in 0 .. n
      OBVIOUS
    <2> QED BY <1>3, <2>1
  <1>6. g[0] = a /\ g[n] = it[1 .. n]
    OBVIOUS
  <1> HIDE DEF g
  <1> QED BY <1>4, <1>5, <1>6 DEF Arrives

LEMMA ArrivesNowhere ==
  ASSUME NEW V, NEW a \in V, NEW step, NEW x, Arrives(V, a, step, 0, x)
  PROVE  x = a
  BY DEF Arrives

\* more has the functions of step and one more.
Continues(V, a, step, n, x, more, m, y) ==
    /\ a \in V /\ n \in Nat /\ m = n + 1
    /\ \A k \in 1 .. n : more[k] = step[k]
    /\ Arrives(V, a, step, n, x) /\ Arrives(V, a, more, m, y)

LEMMA ArrivesNext ==
  ASSUME NEW V, NEW a, NEW step, NEW n, NEW x, NEW more, NEW m, NEW y,
         Continues(V, a, step, n, x, more, m, y)
  PROVE  x \in V /\ y = more[m][x]
  <1>0. /\ a \in V /\ n \in Nat /\ m = n + 1
        /\ \A k \in 1 .. n : more[k] = step[k]
        /\ Arrives(V, a, step, n, x) /\ Arrives(V, a, more, m, y)
    BY DEF Continues
  <1>1. PICK g \in [0 .. n -> V] :
           g[0] = a /\ g[n] = x /\ \A k \in 1 .. n : g[k] = step[k][g[k - 1]]
    BY <1>0 DEF Arrives
  <1>2. PICK h \in [0 .. n + 1 -> V] :
           h[0] = a /\ h[n + 1] = y /\ \A k \in 1 .. n + 1 : h[k] = more[k][h[k - 1]]
    BY <1>0 DEF Arrives
  <1> DEFINE S == {k \in Nat : k <= n => g[k] = h[k]}
  <1>3. 0 \in S
    BY <1>0, <1>1, <1>2
  <1>4. ASSUME NEW k \in Nat, k < n, k \in S PROVE k + 1 \in S
    <2>1. k + 1 \in 1 .. n /\ k + 1 \in 1 .. n + 1 /\ (k + 1) - 1 = k /\ g[k] = h[k]
      BY <1>0, <1>4
    <2>2. g[k + 1] = step[k + 1][g[k]] /\ h[k + 1] = more[k + 1][h[k]]
      BY <1>0, <1>1, <1>2, <2>1
    <2> QED BY <1>0, <2>1, <2>2
  <1>5. 0 .. n \subseteq S
    <2> HIDE DEF S
    <2> QED BY <1>0, <1>3, <1>4, UpTo
  <1>6. g[n] = h[n] /\ g[n] \in V
    BY <1>0, <1>1, <1>5
  <1>7. n + 1 \in 1 .. n + 1 /\ (n + 1) - 1 = n
    BY <1>0
  <1> QED BY <1>0, <1>1, <1>2, <1>6, <1>7

\* The operations of a patch, one after the other.
EffectIter(it, a, seq) ==
    it = [s \in SUBSET DOMAIN seq |->
            IF s = {} THEN a ELSE Effect(it[s \ {Max(s)}], seq[Max(s)])]
EffectSteps(seq) == [k \in 1 .. Len(seq) |-> [v \in Dirs |-> Effect(v, seq[k])]]

LEMMA EffectStepsTyped ==
  ASSUME NEW seq \in Seq(Operations)
  PROVE  EffectSteps(seq) \in [1 .. Len(seq) -> [Dirs -> Dirs]]
  BY EffectTyped DEF EffectSteps

LEMMA EffectFold ==
  ASSUME NEW a \in Dirs, NEW seq \in Seq(Operations)
  PROVE  Arrives(Dirs, a, EffectSteps(seq), Len(seq), FoldLeft(Effect, a, seq))
  <1> DEFINE n == Len(seq)
  <1>1. n \in Nat /\ DOMAIN seq = 1 .. n
    OBVIOUS
  <1>2. PICK un : Unrolls(un, Dirs, a, EffectSteps(seq), n)
    BY <1>1, UnrollsExists, EffectStepsTyped
  <1>3. EffectIter(un, a, seq)
    <2>1. ASSUME NEW s \in SUBSET (1 .. n), s # {}
          PROVE  EffectSteps(seq)[Max(s)][un[s \ {Max(s)}]] = Effect(un[s \ {Max(s)}], seq[Max(s)])
      <3>1. Max(s) \in 1 .. n
        BY <1>1, <2>1, MaxIn
      <3>2. un[s \ {Max(s)}] \in Dirs
        BY <1>2 DEF Unrolls
      <3> QED BY <3>1, <3>2 DEF EffectSteps
    <2> QED BY <1>1, <1>2, <2>1 DEF Unrolls, EffectIter
  <1> DEFINE iter == CHOOSE it : EffectIter(it, a, seq)
  <1>4. EffectIter(iter, a, seq)
    BY <1>3
  <1>5. FoldLeft(Effect, a, seq) = iter[DOMAIN seq]
    BY Zenon DEF FoldLeft, MapThenFoldSet, EffectIter
  <1> HIDE DEF iter
  <1>6. iter[1 .. 0] = a
    <2>1. 1 .. 0 = {} /\ {} \in SUBSET DOMAIN seq
      OBVIOUS
    <2> QED BY <1>4, <2>1 DEF EffectIter
  <1>7. ASSUME NEW k \in 1 .. n, iter[1 .. k - 1] \in Dirs
        PROVE  iter[1 .. k] = EffectSteps(seq)[k][iter[1 .. k - 1]]
    <2>1. 1 .. k \in SUBSET DOMAIN seq /\ 1 .. k # {} /\ Max(1 .. k) = k
          /\ (1 .. k) \ {k} = 1 .. k - 1
      BY <1>1, PrefixOf
    <2>2. iter[1 .. k] = Effect(iter[1 .. k - 1], seq[k])
      BY <1>4, <2>1 DEF EffectIter
    <2> QED BY <1>7, <2>2 DEF EffectSteps
  <1>8. EffectSteps(seq) \in [1 .. n -> [Dirs -> Dirs]]
    BY EffectStepsTyped
  <1>9. Arrives(Dirs, a, EffectSteps(seq), n, iter[1 .. n])
    BY <1>1, <1>6, <1>7, <1>8, PrefixesArrive
  <1> QED BY <1>1, <1>5, <1>9

LEMMA EffectAllOf ==
  ASSUME NEW a \in Dirs, NEW seq \in Seq(Operations)
  PROVE  /\ FoldLeft(Effect, a, seq) \in Dirs
         /\ FoldLeft(Effect, a, << >>) = a
         /\ \A e \in Operations :
              FoldLeft(Effect, a, Append(seq, e)) = Effect(FoldLeft(Effect, a, seq), e)
  <1>1. FoldLeft(Effect, a, << >>) = a
    <2>1. << >> \in Seq(Operations) /\ Len(<< >>) = 0
      OBVIOUS
    <2> QED BY <2>1, EffectFold, ArrivesNowhere
  <1>2. FoldLeft(Effect, a, seq) \in Dirs
    <2>1. Len(seq) \in Nat
      OBVIOUS
    <2> QED BY <2>1, EffectFold DEF Arrives
  <1>3. ASSUME NEW e \in Operations
        PROVE  FoldLeft(Effect, a, Append(seq, e)) = Effect(FoldLeft(Effect, a, seq), e)
    <2> DEFINE more == Append(seq, e)
               n    == Len(seq)
    <2>1. /\ more \in Seq(Operations) /\ Len(more) = n + 1 /\ n \in Nat /\ more[n + 1] = e
          /\ \A k \in 1 .. n : more[k] = seq[k]
      BY AppendProperties
    <2>2. \A k \in 1 .. n : EffectSteps(more)[k] = EffectSteps(seq)[k]
      BY <2>1 DEF EffectSteps
    <2>3. /\ Arrives(Dirs, a, EffectSteps(seq), n, FoldLeft(Effect, a, seq))
          /\ Arrives(Dirs, a, EffectSteps(more), Len(more), FoldLeft(Effect, a, more))
      <3> HIDE DEF more
      <3> QED BY <2>1, EffectFold
    <2>4. FoldLeft(Effect, a, more) = EffectSteps(more)[Len(more)][FoldLeft(Effect, a, seq)]
      <3> HIDE DEF more
      <3>1. Continues(Dirs, a, EffectSteps(seq), n, FoldLeft(Effect, a, seq),
                      EffectSteps(more), Len(more), FoldLeft(Effect, a, more))
        BY <2>1, <2>2, <2>3 DEF Continues
      <3> QED BY <3>1, ArrivesNext
    <2> HIDE DEF more
    <2>5. Len(more) \in 1 .. Len(more)
      BY <2>1
    <2>6. EffectSteps(more)[Len(more)] = [v \in Dirs |-> Effect(v, e)]
      BY <2>1, <2>5 DEF EffectSteps
    <2>7. FoldLeft(Effect, a, more) = Effect(FoldLeft(Effect, a, seq), e)
      BY <1>2, <2>4, <2>6
    <2> QED BY <2>7 DEF more
  <1> QED BY <1>1, <1>2, <1>3

LEMMA PutTyped ==
  ASSUME NEW c \in Changes, NEW fs \in Dirs
  PROVE  Put(fs, c) \in Dirs
  BY DEF Put, Changes, Dirs

\* The changes of an audit, one after the other.
PutIter(it, a, seq) ==
    it = [s \in SUBSET DOMAIN seq |->
            IF s = {} THEN a ELSE Put(it[s \ {Max(s)}], seq[Max(s)])]
PutSteps(seq) == [k \in 1 .. Len(seq) |-> [v \in Dirs |-> Put(v, seq[k])]]

LEMMA PutStepsTyped ==
  ASSUME NEW seq \in Seq(Changes)
  PROVE  PutSteps(seq) \in [1 .. Len(seq) -> [Dirs -> Dirs]]
  BY PutTyped DEF PutSteps

LEMMA PutFold ==
  ASSUME NEW a \in Dirs, NEW seq \in Seq(Changes)
  PROVE  Arrives(Dirs, a, PutSteps(seq), Len(seq), FoldLeft(Put, a, seq))
  <1> DEFINE n == Len(seq)
  <1>1. n \in Nat /\ DOMAIN seq = 1 .. n
    OBVIOUS
  <1>2. PICK un : Unrolls(un, Dirs, a, PutSteps(seq), n)
    BY <1>1, UnrollsExists, PutStepsTyped
  <1>3. PutIter(un, a, seq)
    <2>1. ASSUME NEW s \in SUBSET (1 .. n), s # {}
          PROVE  PutSteps(seq)[Max(s)][un[s \ {Max(s)}]] = Put(un[s \ {Max(s)}], seq[Max(s)])
      <3>1. Max(s) \in 1 .. n
        BY <1>1, <2>1, MaxIn
      <3>2. un[s \ {Max(s)}] \in Dirs
        BY <1>2 DEF Unrolls
      <3> QED BY <3>1, <3>2 DEF PutSteps
    <2> QED BY <1>1, <1>2, <2>1 DEF Unrolls, PutIter
  <1> DEFINE iter == CHOOSE it : PutIter(it, a, seq)
  <1>4. PutIter(iter, a, seq)
    BY <1>3
  <1>5. FoldLeft(Put, a, seq) = iter[DOMAIN seq]
    BY Zenon DEF FoldLeft, MapThenFoldSet, PutIter
  <1> HIDE DEF iter
  <1>6. iter[1 .. 0] = a
    <2>1. 1 .. 0 = {} /\ {} \in SUBSET DOMAIN seq
      OBVIOUS
    <2> QED BY <1>4, <2>1 DEF PutIter
  <1>7. ASSUME NEW k \in 1 .. n, iter[1 .. k - 1] \in Dirs
        PROVE  iter[1 .. k] = PutSteps(seq)[k][iter[1 .. k - 1]]
    <2>1. 1 .. k \in SUBSET DOMAIN seq /\ 1 .. k # {} /\ Max(1 .. k) = k
          /\ (1 .. k) \ {k} = 1 .. k - 1
      BY <1>1, PrefixOf
    <2>2. iter[1 .. k] = Put(iter[1 .. k - 1], seq[k])
      BY <1>4, <2>1 DEF PutIter
    <2> QED BY <1>7, <2>2 DEF PutSteps
  <1>8. PutSteps(seq) \in [1 .. n -> [Dirs -> Dirs]]
    BY PutStepsTyped
  <1>9. Arrives(Dirs, a, PutSteps(seq), n, iter[1 .. n])
    BY <1>1, <1>6, <1>7, <1>8, PrefixesArrive
  <1> QED BY <1>1, <1>5, <1>9

LEMMA PutAllOf ==
  ASSUME NEW a \in Dirs, NEW seq \in Seq(Changes)
  PROVE  /\ FoldLeft(Put, a, seq) \in Dirs
         /\ FoldLeft(Put, a, << >>) = a
         /\ \A e \in Changes :
              FoldLeft(Put, a, Append(seq, e)) = Put(FoldLeft(Put, a, seq), e)
  <1>1. FoldLeft(Put, a, << >>) = a
    <2>1. << >> \in Seq(Changes) /\ Len(<< >>) = 0
      OBVIOUS
    <2> QED BY <2>1, PutFold, ArrivesNowhere
  <1>2. FoldLeft(Put, a, seq) \in Dirs
    <2>1. Len(seq) \in Nat
      OBVIOUS
    <2> QED BY <2>1, PutFold DEF Arrives
  <1>3. ASSUME NEW e \in Changes
        PROVE  FoldLeft(Put, a, Append(seq, e)) = Put(FoldLeft(Put, a, seq), e)
    <2> DEFINE more == Append(seq, e)
               n    == Len(seq)
    <2>1. /\ more \in Seq(Changes) /\ Len(more) = n + 1 /\ n \in Nat /\ more[n + 1] = e
          /\ \A k \in 1 .. n : more[k] = seq[k]
      BY AppendProperties
    <2>2. \A k \in 1 .. n : PutSteps(more)[k] = PutSteps(seq)[k]
      BY <2>1 DEF PutSteps
    <2>3. /\ Arrives(Dirs, a, PutSteps(seq), n, FoldLeft(Put, a, seq))
          /\ Arrives(Dirs, a, PutSteps(more), Len(more), FoldLeft(Put, a, more))
      <3> HIDE DEF more
      <3> QED BY <2>1, PutFold
    <2>4. FoldLeft(Put, a, more) = PutSteps(more)[Len(more)][FoldLeft(Put, a, seq)]
      <3> HIDE DEF more
      <3>1. Continues(Dirs, a, PutSteps(seq), n, FoldLeft(Put, a, seq),
                      PutSteps(more), Len(more), FoldLeft(Put, a, more))
        BY <2>1, <2>2, <2>3 DEF Continues
      <3> QED BY <3>1, ArrivesNext
    <2> HIDE DEF more
    <2>5. Len(more) \in 1 .. Len(more)
      BY <2>1
    <2>6. PutSteps(more)[Len(more)] = [v \in Dirs |-> Put(v, e)]
      BY <2>1, <2>5 DEF PutSteps
    <2>7. FoldLeft(Put, a, more) = Put(FoldLeft(Put, a, seq), e)
      BY <1>2, <2>4, <2>6
    <2> QED BY <2>7 DEF more
  <1> QED BY <1>1, <1>2, <1>3

LEMMA PutAllTyped ==
  ASSUME NEW a \in Audits, NEW fs \in Dirs
  PROVE  PutAll(fs, a) \in Dirs
  BY PutAllOf DEF PutAll, Audits

\* The audits of a trace, one after the other.
PutAllIter(it, a, seq) ==
    it = [s \in SUBSET DOMAIN seq |->
            IF s = {} THEN a ELSE PutAll(it[s \ {Max(s)}], seq[Max(s)])]
PutAllSteps(seq) == [k \in 1 .. Len(seq) |-> [v \in Dirs |-> PutAll(v, seq[k])]]

LEMMA PutAllStepsTyped ==
  ASSUME NEW seq \in Seq(Audits)
  PROVE  PutAllSteps(seq) \in [1 .. Len(seq) -> [Dirs -> Dirs]]
  BY PutAllTyped DEF PutAllSteps

LEMMA PutAllFold ==
  ASSUME NEW a \in Dirs, NEW seq \in Seq(Audits)
  PROVE  Arrives(Dirs, a, PutAllSteps(seq), Len(seq), FoldLeft(PutAll, a, seq))
  <1> DEFINE n == Len(seq)
  <1>1. n \in Nat /\ DOMAIN seq = 1 .. n
    OBVIOUS
  <1>2. PICK un : Unrolls(un, Dirs, a, PutAllSteps(seq), n)
    BY <1>1, UnrollsExists, PutAllStepsTyped
  <1>3. PutAllIter(un, a, seq)
    <2>1. ASSUME NEW s \in SUBSET (1 .. n), s # {}
          PROVE  PutAllSteps(seq)[Max(s)][un[s \ {Max(s)}]] = PutAll(un[s \ {Max(s)}], seq[Max(s)])
      <3>1. Max(s) \in 1 .. n
        BY <1>1, <2>1, MaxIn
      <3>2. un[s \ {Max(s)}] \in Dirs
        BY <1>2 DEF Unrolls
      <3> QED BY <3>1, <3>2 DEF PutAllSteps
    <2> QED BY <1>1, <1>2, <2>1 DEF Unrolls, PutAllIter
  <1> DEFINE iter == CHOOSE it : PutAllIter(it, a, seq)
  <1>4. PutAllIter(iter, a, seq)
    BY <1>3
  <1>5. FoldLeft(PutAll, a, seq) = iter[DOMAIN seq]
    BY Zenon DEF FoldLeft, MapThenFoldSet, PutAllIter
  <1> HIDE DEF iter
  <1>6. iter[1 .. 0] = a
    <2>1. 1 .. 0 = {} /\ {} \in SUBSET DOMAIN seq
      OBVIOUS
    <2> QED BY <1>4, <2>1 DEF PutAllIter
  <1>7. ASSUME NEW k \in 1 .. n, iter[1 .. k - 1] \in Dirs
        PROVE  iter[1 .. k] = PutAllSteps(seq)[k][iter[1 .. k - 1]]
    <2>1. 1 .. k \in SUBSET DOMAIN seq /\ 1 .. k # {} /\ Max(1 .. k) = k
          /\ (1 .. k) \ {k} = 1 .. k - 1
      BY <1>1, PrefixOf
    <2>2. iter[1 .. k] = PutAll(iter[1 .. k - 1], seq[k])
      BY <1>4, <2>1 DEF PutAllIter
    <2> QED BY <1>7, <2>2 DEF PutAllSteps
  <1>8. PutAllSteps(seq) \in [1 .. n -> [Dirs -> Dirs]]
    BY PutAllStepsTyped
  <1>9. Arrives(Dirs, a, PutAllSteps(seq), n, iter[1 .. n])
    BY <1>1, <1>6, <1>7, <1>8, PrefixesArrive
  <1> QED BY <1>1, <1>5, <1>9

LEMMA PutAllAllOf ==
  ASSUME NEW a \in Dirs, NEW seq \in Seq(Audits)
  PROVE  /\ FoldLeft(PutAll, a, seq) \in Dirs
         /\ FoldLeft(PutAll, a, << >>) = a
         /\ \A e \in Audits :
              FoldLeft(PutAll, a, Append(seq, e)) = PutAll(FoldLeft(PutAll, a, seq), e)
  <1>1. FoldLeft(PutAll, a, << >>) = a
    <2>1. << >> \in Seq(Audits) /\ Len(<< >>) = 0
      OBVIOUS
    <2> QED BY <2>1, PutAllFold, ArrivesNowhere
  <1>2. FoldLeft(PutAll, a, seq) \in Dirs
    <2>1. Len(seq) \in Nat
      OBVIOUS
    <2> QED BY <2>1, PutAllFold DEF Arrives
  <1>3. ASSUME NEW e \in Audits
        PROVE  FoldLeft(PutAll, a, Append(seq, e)) = PutAll(FoldLeft(PutAll, a, seq), e)
    <2> DEFINE more == Append(seq, e)
               n    == Len(seq)
    <2>1. /\ more \in Seq(Audits) /\ Len(more) = n + 1 /\ n \in Nat /\ more[n + 1] = e
          /\ \A k \in 1 .. n : more[k] = seq[k]
      BY AppendProperties
    <2>2. \A k \in 1 .. n : PutAllSteps(more)[k] = PutAllSteps(seq)[k]
      BY <2>1 DEF PutAllSteps
    <2>3. /\ Arrives(Dirs, a, PutAllSteps(seq), n, FoldLeft(PutAll, a, seq))
          /\ Arrives(Dirs, a, PutAllSteps(more), Len(more), FoldLeft(PutAll, a, more))
      <3> HIDE DEF more
      <3> QED BY <2>1, PutAllFold
    <2>4. FoldLeft(PutAll, a, more) = PutAllSteps(more)[Len(more)][FoldLeft(PutAll, a, seq)]
      <3> HIDE DEF more
      <3>1. Continues(Dirs, a, PutAllSteps(seq), n, FoldLeft(PutAll, a, seq),
                      PutAllSteps(more), Len(more), FoldLeft(PutAll, a, more))
        BY <2>1, <2>2, <2>3 DEF Continues
      <3> QED BY <3>1, ArrivesNext
    <2> HIDE DEF more
    <2>5. Len(more) \in 1 .. Len(more)
      BY <2>1
    <2>6. PutAllSteps(more)[Len(more)] = [v \in Dirs |-> PutAll(v, e)]
      BY <2>1, <2>5 DEF PutAllSteps
    <2>7. FoldLeft(PutAll, a, more) = PutAll(FoldLeft(PutAll, a, seq), e)
      BY <1>2, <2>4, <2>6
    <2> QED BY <2>7 DEF more
  <1> QED BY <1>1, <1>2, <1>3

(***************************************************************************)
(* Types.                                                                  *)
(***************************************************************************)

LEMMA TypeInit == Init => TypeOK
  <1> SUFFICES ASSUME Init PROVE TypeOK
    OBVIOUS
  <1>1. files \in Dirs
    BY ToolAssumption DEF Init, Dirs, Data
  <1>2. state \in [calls : [CallTools -> Nat], total : Nat]
    BY DEF Init, CallTools
  <1>3. jobs = << >> /\ trace = << >> /\ walk = "turn" /\ unseen = FALSE
    BY DEF Init
  <1>4. << >> \in Seq(Jobs) /\ << >> \in Seq(Audits) /\ DOMAIN << >> = {}
    OBVIOUS
  <1> QED BY <1>1, <1>2, <1>3, <1>4 DEF TypeOK

\* A job of the sequence and the types of what an executor reads of it.
LEMMA JobTyped ==
  ASSUME TypeOK, NEW j \in DOMAIN jobs
  PROVE  /\ jobs[j] \in Jobs /\ Placed(jobs[j]) /\ Len(jobs) \in Nat
         /\ DOMAIN jobs = 1 .. Len(jobs) /\ j \in 1 .. Len(jobs)
         /\ jobs[j].at \in {"snapshot", "apply"} => Op(jobs[j]) \in Operations
  <1>1. jobs[j] \in Jobs /\ Placed(jobs[j]) /\ DOMAIN jobs = 1 .. Len(jobs) /\ Len(jobs) \in Nat
    BY LenProperties DEF TypeOK
  <1>2. ASSUME jobs[j].at \in {"snapshot", "apply"} PROVE Op(jobs[j]) \in Operations
    <2>1. jobs[j].ops \in Seq(Operations) /\ jobs[j].next \in DOMAIN jobs[j].ops
      BY <1>1, <1>2 DEF Jobs, Placed
    <2> QED BY <2>1 DEF Op
  <1> QED BY <1>1, <1>2

\* What a step of an executor makes of its job, whatever it does to files.
Moves(j, job) ==
    /\ job \in Jobs /\ Placed(job)
    /\ job.tool = jobs[j].tool /\ job.ops = jobs[j].ops
    /\ job.left = jobs[j].left /\ job.before = jobs[j].before
    /\ jobs' = [jobs EXCEPT ![j] = job]

LEMMA StepMoves ==
  ASSUME TypeOK, NEW j \in DOMAIN jobs, NEW where \in Places, Step(j, where),
         where # "validate",
         where \in {"snapshot", "apply"} => jobs[j].next \in DOMAIN jobs[j].ops,
         where \in {"snapshot", "rollback"} => Transactional(jobs[j])
  PROVE  Moves(j, [jobs[j] EXCEPT !.at = where])
  BY JobTyped DEF Moves, Step, Jobs, Placed, Transactional

LEMMA ReadMoves ==
  ASSUME TypeOK, NEW j \in DOMAIN jobs, Read(j)
  PROVE  /\ \E where \in {"done", "refused"} : Moves(j, [jobs[j] EXCEPT !.at = where])
         /\ UNCHANGED <<files, unseen>>
  <1>1. PICK where \in {"done", "refused"} : Step(j, where)
    BY DEF Read
  <1>2. Moves(j, [jobs[j] EXCEPT !.at = where])
    BY <1>1, StepMoves DEF Places
  <1> QED BY <1>1, <1>2 DEF Read, Fine

LEMMA ValidateMoves ==
  ASSUME TypeOK, NEW j \in DOMAIN jobs, Validate(j)
  PROVE  /\ \E where \in {"snapshot", "apply", "refused"} :
              /\ Moves(j, [jobs[j] EXCEPT !.at = where])
              /\ where = "apply" => ~Transactional(jobs[j])
         /\ UNCHANGED <<files, unseen>>
  <1>1. jobs[j].ops \in Seq(Operations) /\ jobs[j].ops # << >> /\ jobs[j].next = 1
    BY JobTyped DEF Validate, Jobs, Placed
  <1>2. jobs[j].next \in DOMAIN jobs[j].ops
    BY <1>1
  <1>3. PICK where \in {"snapshot", "apply", "refused"} :
           /\ Step(j, where)
           /\ where = "snapshot" => Transactional(jobs[j])
           /\ where = "apply" => ~Transactional(jobs[j])
    BY DEF Validate
  <1>4. Moves(j, [jobs[j] EXCEPT !.at = where])
    BY <1>2, <1>3, StepMoves DEF Places
  <1> QED BY <1>3, <1>4 DEF Validate, Fine

\* The entries a snapshot adds to the journal.
Notes(op, as) == [i \in DOMAIN Touched(op) |-> <<Touched(op)[i], as[i]>>]
Seen(op)      == [i \in DOMAIN Touched(op) |-> files[Touched(op)[i]]]
Noted(job, as) ==
    [job EXCEPT !.at = "apply", !.journal = @ \o Notes(Op(job), as)]

LEMMA SnapshotMoves ==
  ASSUME TypeOK, NEW j \in DOMAIN jobs, Snapshot(j)
  PROVE  /\ \E as \in [DOMAIN Touched(Op(jobs[j])) -> Data] :
              /\ Moves(j, Noted(jobs[j], as))
              /\ (as = Seen(Op(jobs[j])) /\ unseen' = unseen) \/ unseen' = TRUE
         /\ UNCHANGED files
  <1> DEFINE job == jobs[j]
             op  == Op(job)
  <1>1. job \in Jobs /\ Placed(job) /\ op \in Operations /\ job.at = "snapshot"
    BY JobTyped DEF Snapshot
  <1>2. Touched(op) \in Seq(Files) /\ Seen(op) \in [DOMAIN Touched(op) -> Data]
    BY <1>1, TouchedShapes DEF Seen, TypeOK, Dirs
  <1>3. \E as \in [DOMAIN Touched(op) -> Data] :
           /\ jobs' = [jobs EXCEPT ![j] = Noted(job, as)]
           /\ (as = Seen(op) /\ unseen' = unseen) \/ unseen' = TRUE
    <2>1. CASE jobs' = [jobs EXCEPT ![j] = Noted(job, Seen(op))] /\ unseen' = unseen
      BY <2>1, <1>2
    <2>2. ASSUME NEW i \in DOMAIN Touched(op), unseen' = TRUE,
                 jobs' = [jobs EXCEPT ![j] = Noted(job, [Seen(op) EXCEPT ![i] = Absent])]
          PROVE  \E as \in [DOMAIN Touched(op) -> Data] :
                   jobs' = [jobs EXCEPT ![j] = Noted(job, as)] /\ unseen' = TRUE
      <3>1. [Seen(op) EXCEPT ![i] = Absent] \in [DOMAIN Touched(op) -> Data]
        BY <1>2 DEF Data
      <3> QED BY <2>2, <3>1
    <2> QED BY <2>1, <2>2 DEF Snapshot, Noted, Notes, Seen, Fine
  <1>4. PICK as \in [DOMAIN Touched(op) -> Data] :
           /\ jobs' = [jobs EXCEPT ![j] = Noted(job, as)]
           /\ (as = Seen(op) /\ unseen' = unseen) \/ unseen' = TRUE
    BY <1>3
  <1>5. Notes(op, as) \in Seq(Files \X Data)
    <2>1. PICK n \in Nat : DOMAIN Touched(op) = 1 .. n
      BY <1>1, TouchedShapes
    <2>2. \A i \in DOMAIN Touched(op) : Touched(op)[i] \in Files
      BY <1>2
    <2>3. Notes(op, as) \in [1 .. n -> Files \X Data]
      BY <2>1, <2>2 DEF Notes
    <2> QED BY <2>3, FunctionIsSeq
  <1>6. Noted(job, as) \in Jobs
    <2>1. job.journal \o Notes(op, as) \in Seq(Files \X Data)
      BY <1>1, <1>5, ConcatProperties DEF Jobs
    <2> QED BY <1>1, <2>1 DEF Noted, Jobs, Places
  <1>7. Moves(j, Noted(job, as))
    BY <1>1, <1>4, <1>6 DEF Moves, Noted, Jobs, Placed, Transactional
  <1> QED BY <1>4, <1>7 DEF Snapshot

\* What a failing and a succeeding operation make of the job.
Failed(job) == [job EXCEPT !.at = IF Transactional(job) THEN "rollback" ELSE "refused"]
Finishes(job) == job.next = Len(job.ops)
Applied(job) ==
    [job EXCEPT !.changes = @ \o Records(Op(job)),
                !.next = IF Finishes(job) THEN @ ELSE @ + 1,
                !.journal = IF Finishes(job) THEN << >> ELSE @,
                !.at = IF Finishes(job) THEN "done" ELSE "snapshot"]

LEMMA ApplyMoves ==
  ASSUME TypeOK, NEW j \in DOMAIN jobs, Apply(j)
  PROVE  /\ jobs[j].at = "apply"
         /\ \/ Moves(j, Failed(jobs[j])) /\ UNCHANGED <<files, unseen>>
            \/ /\ Moves(j, Applied(jobs[j])) /\ unseen' = unseen
               /\ files' = Effect(files, Op(jobs[j]))
            \/ /\ Moves(j, Failed(jobs[j]))
               /\ Op(jobs[j]).op = "write" /\ files' = [files EXCEPT ![Op(jobs[j]).path] = Torn]
               /\ unseen' = (unseen \/ ~Transactional(jobs[j]))
  <1> DEFINE job == jobs[j]
             op  == Op(job)
  <1>1. job \in Jobs /\ Placed(job) /\ op \in Operations /\ job.at = "apply"
    BY JobTyped DEF Apply
  <1>2. job.next \in 1 .. Len(job.ops) /\ Len(job.ops) \in Nat /\ DOMAIN job.ops = 1 .. Len(job.ops)
    BY <1>1, LenProperties DEF Jobs, Placed
  <1>3. ASSUME Step(j, IF Transactional(job) THEN "rollback" ELSE "refused")
        PROVE  Moves(j, Failed(job))
    BY <1>3, StepMoves DEF Failed, Places
  <1>4. ASSUME jobs' = [jobs EXCEPT ![j] = Applied(job)]
        PROVE  Moves(j, Applied(job))
    <2>1. job.changes \o Records(op) \in Seq(Changes)
      BY <1>1, RecordsTyped, ConcatProperties DEF Jobs, TypeOK
    <2>2. << >> \in Seq(Files \X Data)
      OBVIOUS
    <2>3. /\ (IF Finishes(job) THEN job.next ELSE job.next + 1) \in Nat
          /\ (IF Finishes(job) THEN << >> ELSE job.journal) \in Seq(Files \X Data)
          /\ (IF Finishes(job) THEN "done" ELSE "snapshot") \in Places
      BY <1>1, <1>2, <2>2 DEF Jobs, Places
    <2>4. Applied(job) \in Jobs
      BY <1>1, <2>1, <2>3 DEF Applied, Jobs
    <2>5. ~Finishes(job) => Transactional(job) /\ job.next + 1 \in DOMAIN job.ops
      BY <1>1, <1>2 DEF Finishes, Placed
    <2>6. /\ Applied(job).tool = job.tool /\ Applied(job).ops = job.ops
          /\ Applied(job).left = job.left /\ Applied(job).before = job.before
          /\ Applied(job).next = IF Finishes(job) THEN job.next ELSE job.next + 1
          /\ Applied(job).at = IF Finishes(job) THEN "done" ELSE "snapshot"
      BY <1>1 DEF Applied, Jobs
    <2>7. Placed(Applied(job))
      BY <1>1, <2>5, <2>6 DEF Placed, Transactional
    <2> QED BY <1>4, <2>4, <2>6, <2>7 DEF Moves
  <1>5. \/ Step(j, IF Transactional(job) THEN "rollback" ELSE "refused") /\ UNCHANGED <<files, unseen>>
        \/ /\ jobs' = [jobs EXCEPT ![j] = Applied(job)] /\ unseen' = unseen
           /\ files' = Effect(files, op)
        \/ /\ Step(j, IF Transactional(job) THEN "rollback" ELSE "refused")
           /\ op.op = "write" /\ files' = [files EXCEPT ![op.path] = Torn]
           /\ unseen' = (unseen \/ ~Transactional(job))
    BY DEF Apply, Fine, Applied, Finishes
  <1> QED BY <1>1, <1>3, <1>4, <1>5

Undone(job) == [job EXCEPT !.journal = Front(@)]

LEMMA RollbackMoves ==
  ASSUME TypeOK, NEW j \in DOMAIN jobs, Rollback(j)
  PROVE  /\ jobs[j].at = "rollback"
         /\ \/ /\ jobs[j].journal = << >> /\ UNCHANGED <<files, unseen>>
               /\ Moves(j, [jobs[j] EXCEPT !.at = "refused"])
            \/ /\ jobs[j].journal # << >> /\ Moves(j, Undone(jobs[j]))
               /\ \/ /\ files' = [files EXCEPT ![Last(jobs[j].journal)[1]] = Last(jobs[j].journal)[2]]
                     /\ unseen' = unseen
                  \/ unseen' = TRUE /\ UNCHANGED files
  <1> DEFINE job == jobs[j]
  <1>1. job \in Jobs /\ Placed(job) /\ job.at = "rollback"
    BY JobTyped DEF Rollback
  <1>2. CASE job.journal = << >>
    <2>1. Step(j, "refused") /\ UNCHANGED <<files, unseen>>
      BY <1>2 DEF Rollback, Fine
    <2> QED BY <1>1, <1>2, <2>1, StepMoves DEF Places
  <1>3. CASE job.journal # << >>
    <2>1. jobs' = [jobs EXCEPT ![j] = Undone(job)]
      BY <1>3 DEF Rollback, Undone
    <2>2. Front(job.journal) \in Seq(Files \X Data)
      BY <1>1, <1>3, FrontShapes DEF Jobs
    <2>3. Moves(j, Undone(job))
      BY <1>1, <2>1, <2>2 DEF Moves, Undone, Jobs, Placed, Transactional
    <2> QED BY <1>1, <1>3, <2>3 DEF Rollback, Fine
  <1> QED BY <1>2, <1>3

LEMMA RunTyped ==
  ASSUME TypeOK, NEW j \in DOMAIN jobs, Run(j)
  PROVE  /\ \E job : Moves(j, job)
         /\ files' \in Dirs /\ unseen' \in BOOLEAN
         /\ walk \in {"turn", "call"} /\ UNCHANGED walkVars
  <1>1. walk \in {"turn", "call"} /\ UNCHANGED walkVars
    BY DEF Run
  <1>2. files \in Dirs /\ unseen \in BOOLEAN /\ Torn \in Data
    BY DEF TypeOK, Data
  <1>3. CASE Read(j)
    BY <1>1, <1>2, <1>3, ReadMoves
  <1>4. CASE Validate(j)
    BY <1>1, <1>2, <1>4, ValidateMoves
  <1>5. CASE Snapshot(j)
    BY <1>1, <1>2, <1>5, SnapshotMoves
  <1>6. CASE Apply(j)
    <2>1. jobs[j].at = "apply" => Op(jobs[j]) \in Operations
      BY JobTyped
    <2>2. Op(jobs[j]) \in Operations => Effect(files, Op(jobs[j])) \in Dirs
      BY <1>2, EffectTyped
    <2>3. \A p : [files EXCEPT ![p] = Torn] \in Dirs
      BY <1>2 DEF Dirs
    <2>4. \E job : Moves(j, job)
      BY <1>6, ApplyMoves
    <2>5. /\ Effect(files, Op(jobs[j])) \in Dirs
          /\ unseen \in BOOLEAN /\ (unseen \/ ~Transactional(jobs[j])) \in BOOLEAN
      BY <1>2, <1>6, <2>1, <2>2, ApplyMoves
    <2>6. /\ \/ files' = files \/ files' = Effect(files, Op(jobs[j]))
             \/ files' = [files EXCEPT ![Op(jobs[j]).path] = Torn]
          /\ unseen' = unseen \/ unseen' = (unseen \/ ~Transactional(jobs[j]))
      BY <1>6, ApplyMoves, Zenon
    <2>7. files' \in Dirs /\ unseen' \in BOOLEAN
      BY <1>2, <2>3, <2>5, <2>6, Zenon
    <2> QED BY <1>1, <2>4, <2>7
  <1>7. CASE Rollback(j)
    <2>1. jobs[j].journal \in Seq(Files \X Data)
      BY JobTyped DEF Jobs
    <2>2. jobs[j].journal # << >> => Last(jobs[j].journal) \in Files \X Data
      BY <2>1, FrontShapes
    <2>3. jobs[j].journal # << >> => Last(jobs[j].journal)[2] \in Data
      BY <2>2
    <2>4. jobs[j].journal # << >> =>
            [files EXCEPT ![Last(jobs[j].journal)[1]] = Last(jobs[j].journal)[2]] \in Dirs
      BY <1>2, <2>3 DEF Dirs
    <2>5. \E job : Moves(j, job)
      BY <1>7, RollbackMoves
    <2>6. unseen' \in BOOLEAN
      BY <1>2, <1>7, RollbackMoves
    <2>7. files' \in Dirs
      BY <1>2, <1>7, <2>4, RollbackMoves
    <2> QED BY <1>1, <2>5, <2>6, <2>7
  <1> QED BY <1>3, <1>4, <1>5, <1>6, <1>7 DEF Run

LEMMA MovesKeeps ==
  ASSUME TypeOK, NEW j \in DOMAIN jobs, NEW job, Moves(j, job)
  PROVE  /\ jobs' \in Seq(Jobs) /\ Len(jobs') = Len(jobs) /\ DOMAIN jobs' = DOMAIN jobs
         /\ jobs'[j] = job /\ \A i \in DOMAIN jobs : i # j => jobs'[i] = jobs[i]
         /\ \A i \in DOMAIN jobs' : Placed(jobs'[i])
         /\ \A i \in DOMAIN jobs : /\ jobs'[i].tool = jobs[i].tool
                                   /\ jobs'[i].ops = jobs[i].ops
                                   /\ jobs'[i].left = jobs[i].left
                                   /\ jobs'[i].before = jobs[i].before
  <1>1. /\ jobs' \in Seq(Jobs) /\ Len(jobs') = Len(jobs) /\ DOMAIN jobs' = DOMAIN jobs
        /\ jobs'[j] = job /\ \A i \in DOMAIN jobs : i # j => jobs'[i] = jobs[i]
    BY JobStep DEF Moves, TypeOK
  <1> QED BY <1>1 DEF Moves, TypeOK

LEMMA AuditTyped ==
  ASSUME TypeOK, NEW tool \in CallTools, NEW changes \in Seq(Changes),
         NEW decision \in {"denied", "authorized", "error", "timeout"},
         Audited(tool, decision, changes)
  PROVE  /\ trace' \in Seq(Audits) /\ walk' = "turn"
         /\ state' \in [calls : [CallTools -> Nat], total : Nat]
         /\ state'.calls[tool] = state.calls[tool] + 1 /\ state'.total = state.total + 1
         /\ \A t \in CallTools : t # tool => state'.calls[t] = state.calls[t]
  <1>1. trace' \in Seq(Audits)
    BY AppendProperties DEF Audited, TypeOK, Audits
  <1>2. /\ state.calls \in [CallTools -> Nat] /\ state.total \in Nat
        /\ state' = [calls |-> [state.calls EXCEPT ![tool] = @ + 1], total |-> state.total + 1]
        /\ walk' = "turn"
    BY DEF Audited, TypeOK
  <1> QED BY <1>1, <1>2

Started(call) ==
    [tool |-> call.tool, ops |-> call.ops, at |-> "validate", next |-> 1,
     journal |-> << >>, changes |-> << >>, left |-> FALSE, before |-> files]

LEMMA ExecuteStarts ==
  ASSUME TypeOK, NEW call \in Calls, Execute(call)
  PROVE  /\ jobs' \in Seq(Jobs) /\ Len(jobs') = Len(jobs) + 1 /\ jobs' # << >>
         /\ DOMAIN jobs' = 1 .. Len(jobs) + 1
         /\ jobs'[Len(jobs) + 1] = Started(call)
         /\ \A i \in DOMAIN jobs : i \in DOMAIN jobs' /\ jobs'[i] = jobs[i]
         /\ \A i \in DOMAIN jobs' : Placed(jobs'[i])
         /\ walk = "turn" /\ walk' = "call" /\ Started(call) \in Jobs
  <1>1. call.ops \in Seq(Operations) /\ call.tool \in CallTools
    BY InputAssumption DEF CallTools
  <1>2. << >> \in Seq(Files \X Data) /\ << >> \in Seq(Changes)
    OBVIOUS
  <1>3. Started(call) \in Jobs
    BY <1>1, <1>2 DEF Started, Jobs, Places, TypeOK
  <1>4. Placed(Started(call))
    <2>1. call.tool = "apply_patch" \/ Len(call.ops) <= 1
      BY InputAssumption
    <2> QED BY <2>1 DEF Placed, Started, Transactional
  <1>5. jobs' = Append(jobs, Started(call)) /\ walk = "turn" /\ walk' = "call"
    BY DEF Execute, Started
  <1>6. /\ jobs' \in Seq(Jobs) /\ Len(jobs') = Len(jobs) + 1 /\ DOMAIN jobs' = 1 .. Len(jobs) + 1
        /\ jobs'[Len(jobs) + 1] = Started(call)
        /\ \A i \in 1 .. Len(jobs) : jobs'[i] = jobs[i]
        /\ DOMAIN jobs = 1 .. Len(jobs) /\ Len(jobs) \in Nat
    BY <1>3, <1>5, AppendProperties, LenProperties DEF TypeOK
  <1>7. \A i \in DOMAIN jobs : i \in DOMAIN jobs' /\ jobs'[i] = jobs[i]
    BY <1>6
  <1>8. \A i \in DOMAIN jobs' : Placed(jobs'[i])
    <2>1. \A i \in DOMAIN jobs' : i \in DOMAIN jobs \/ i = Len(jobs) + 1
      BY <1>6
    <2> QED BY <1>4, <1>6, <1>7, <2>1 DEF TypeOK
  <1> QED BY <1>3, <1>5, <1>6, <1>7, <1>8

\* The last job, which is the one of the call the walk is at.
LEMMA LastJob ==
  ASSUME TypeOK, walk \in {"call", "failed"}
  PROVE  Len(jobs) \in DOMAIN jobs /\ Len(jobs) \in Nat /\ DOMAIN jobs = 1 .. Len(jobs)
  BY LenProperties, EmptySeq DEF TypeOK

LEMMA AnswerAudits ==
  ASSUME TypeOK, Answer
  PROVE  /\ Len(jobs) \in DOMAIN jobs /\ walk = "call" /\ UNCHANGED <<files, jobs, faults, unseen>>
         /\ jobs[Len(jobs)] \in Jobs
         /\ \/ /\ jobs[Len(jobs)].at = "done"
               /\ Audited(jobs[Len(jobs)].tool, "authorized", jobs[Len(jobs)].changes)
            \/ /\ jobs[Len(jobs)].at = "refused"
               /\ Audited(jobs[Len(jobs)].tool, "error", << >>)
  <1>1. Len(jobs) \in DOMAIN jobs /\ jobs[Len(jobs)] \in Jobs
    BY LastJob, JobTyped DEF Answer
  <1> QED BY <1>1 DEF Answer

LeftAlone(job) == [job EXCEPT !.left = TRUE]

LEMMA TimeoutLeaves ==
  ASSUME TypeOK, Timeout
  PROVE  /\ Len(jobs) \in DOMAIN jobs /\ walk = "call" /\ UNCHANGED <<files, unseen>>
         /\ jobs[Len(jobs)] \in Jobs
         /\ Audited(jobs[Len(jobs)].tool, "timeout", << >>)
         /\ jobs' \in Seq(Jobs) /\ Len(jobs') = Len(jobs) /\ DOMAIN jobs' = DOMAIN jobs
         /\ jobs'[Len(jobs)] = LeftAlone(jobs[Len(jobs)])
         /\ \A i \in DOMAIN jobs : i # Len(jobs) => jobs'[i] = jobs[i]
         /\ \A i \in DOMAIN jobs' : Placed(jobs'[i])
         /\ \A i \in DOMAIN jobs : /\ jobs'[i].tool = jobs[i].tool
                                   /\ jobs'[i].ops = jobs[i].ops
                                   /\ jobs'[i].before = jobs[i].before
  <1> DEFINE job == jobs[Len(jobs)]
  <1>1. Len(jobs) \in DOMAIN jobs /\ job \in Jobs /\ Placed(job)
    BY LastJob, JobTyped DEF Timeout
  <1>2. LeftAlone(job) \in Jobs
    BY <1>1 DEF LeftAlone, Jobs
  <1>3. jobs' = [jobs EXCEPT ![Len(jobs)] = LeftAlone(job)]
    BY DEF Timeout, LeftAlone
  <1>4. Placed(LeftAlone(job))
    BY <1>1 DEF Placed, LeftAlone, Jobs, Transactional
  <1>5. /\ jobs' \in Seq(Jobs) /\ Len(jobs') = Len(jobs) /\ DOMAIN jobs' = DOMAIN jobs
        /\ jobs'[Len(jobs)] = LeftAlone(job)
        /\ \A i \in DOMAIN jobs : i # Len(jobs) => jobs'[i] = jobs[i]
    BY <1>1, <1>2, <1>3, JobStep DEF TypeOK
  <1>6. \A i \in DOMAIN jobs' : Placed(jobs'[i])
    BY <1>4, <1>5 DEF TypeOK
  <1>7. /\ LeftAlone(job).tool = job.tool /\ LeftAlone(job).ops = job.ops
        /\ LeftAlone(job).before = job.before
    BY <1>1 DEF LeftAlone, Jobs
  <1> QED BY <1>1, <1>5, <1>6, <1>7 DEF Timeout

LEMMA TypeStep == TypeOK /\ [Next]_vars => TypeOK'
  <1> SUFFICES ASSUME TypeOK, [Next]_vars PROVE TypeOK'
    OBVIOUS
  <1>1. ASSUME NEW call \in Calls, Refuse(call) PROVE TypeOK'
    <2>1. call.tool \in CallTools /\ << >> \in Seq(Changes)
      BY DEF CallTools
    <2>2. Audited(call.tool, "denied", << >>) /\ UNCHANGED <<files, jobs, faults, unseen>>
      BY <1>1 DEF Refuse
    <2> QED BY <2>1, <2>2, AuditTyped DEF TypeOK
  <1>2. ASSUME NEW call \in Calls, Execute(call) PROVE TypeOK'
    <2>1. UNCHANGED <<files, trace, state, unseen>>
      BY <1>2 DEF Execute
    <2> QED BY <1>2, <2>1, ExecuteStarts DEF TypeOK
  <1>3. CASE Answer
    <2>1. << >> \in Seq(Changes)
      OBVIOUS
    <2>2. jobs[Len(jobs)].tool \in CallTools /\ jobs[Len(jobs)].changes \in Seq(Changes)
      BY <1>3, AnswerAudits DEF Jobs
    <2>3. \/ Audited(jobs[Len(jobs)].tool, "authorized", jobs[Len(jobs)].changes)
          \/ Audited(jobs[Len(jobs)].tool, "error", << >>)
      BY <1>3, AnswerAudits
    <2>4. /\ trace' \in Seq(Audits) /\ walk' = "turn"
          /\ state' \in [calls : [CallTools -> Nat], total : Nat]
      BY <2>1, <2>2, <2>3, AuditTyped
    <2>5. UNCHANGED <<files, jobs, unseen>>
      BY <1>3, AnswerAudits
    <2> QED BY <2>4, <2>5 DEF TypeOK
  <1>4. CASE Timeout
    <2>1. << >> \in Seq(Changes) /\ jobs[Len(jobs)].tool \in CallTools
      BY <1>4, TimeoutLeaves DEF Jobs
    <2>2. /\ trace' \in Seq(Audits) /\ walk' = "turn"
          /\ state' \in [calls : [CallTools -> Nat], total : Nat]
      BY <1>4, <2>1, TimeoutLeaves, AuditTyped
    <2> QED BY <1>4, <2>2, TimeoutLeaves DEF TypeOK
  <1>5. CASE AuditFails
    BY <1>5 DEF AuditFails, TypeOK
  <1>6. CASE EnterPhase
    BY <1>6 DEF EnterPhase, TypeOK
  <1>7. CASE Collect
    BY <1>7 DEF Collect, TypeOK
  <1>8. ASSUME NEW j \in DOMAIN jobs, Run(j) PROVE TypeOK'
    <2>1. /\ jobs' \in Seq(Jobs) /\ Len(jobs') = Len(jobs)
          /\ \A i \in DOMAIN jobs' : Placed(jobs'[i])
      BY <1>8, RunTyped, MovesKeeps
    <2>2. files' \in Dirs /\ unseen' \in BOOLEAN /\ UNCHANGED <<trace, state, walk>>
      BY <1>8, RunTyped DEF walkVars
    <2>3. jobs # << >> => jobs' # << >>
      BY <2>1, EmptySeq DEF TypeOK
    <2> QED BY <2>1, <2>2, <2>3 DEF TypeOK
  <1>9. CASE UNCHANGED vars
    BY <1>9 DEF vars, TypeOK
  <1> QED BY <1>1, <1>2, <1>3, <1>4, <1>5, <1>6, <1>7, <1>8, <1>9 DEF Next

\* The types of the workspace, the executors, the trace and the counters.
THEOREM TypesHold == Spec => []TypeOK
  BY TypeInit, TypeStep, PTL DEF Spec

(***************************************************************************)
(* Quotas.  What ran is counted, but for the call the walk is still at: a  *)
(* gate that lets a call through sees every earlier one.                   *)
(***************************************************************************)

Ran(t) == {j \in DOMAIN jobs : jobs[j].tool = t}

Uncounted(t) ==
    IF walk \in {"call", "failed"} /\ jobs[Len(jobs)].tool = t THEN 1 ELSE 0

Counted ==
    /\ Len(jobs) <= state.total + (IF walk \in {"call", "failed"} THEN 1 ELSE 0)
    /\ \A t \in Tools : Cardinality(Ran(t)) <= state.calls[t] + Uncounted(t)

Granted ==
    /\ Len(jobs) <= Grant.total
    /\ \A t \in Tools : Ran(t) # {} =>
         /\ t \in DOMAIN Grant.entries /\ Cardinality(Ran(t)) <= Grant.entries[t].max
         /\ Registry[t].mutating => Grant.entries[t].mutating

QuotaInv == TypeOK /\ Counted /\ Granted

LEMMA GrantedIsQuotasBound == Granted <=> QuotasBound
  BY Zenon DEF Granted, QuotasBound, Ran

\* What a phase's grant allows, the task's grant allows.
LEMMA PhaseGrantNarrows ==
  ASSUME NEW tool, NEW caps, NEW st, Available(Registry, phaseGrant(Grant, caps), tool, st)
  PROVE  Available(Registry, Grant, tool, st) /\ tool \in caps
  <1> DEFINE entries == [t \in DOMAIN Grant.entries \cap caps |-> Grant.entries[t]]
  <1>1. phaseGrant(Grant, caps).entries = entries /\ phaseGrant(Grant, caps).total = Grant.total
    BY InputAssumption DEF phaseGrant
  <1>2. tool \in DOMAIN Grant.entries \cap caps /\ entries[tool] = Grant.entries[tool]
    BY <1>1 DEF Available
  <1> QED BY <1>1, <1>2 DEF Available

\* Nothing is allowed that is not available.
LEMMA AllowedIsAvailable ==
  ASSUME NEW reg, NEW grant, NEW call, NEW st, Allow \in Authorize(reg, grant, call, st)
  PROVE  Available(reg, grant, call.tool, st)
  <1>1. NotAvailable # Allow
    BY DEF NotAvailable, Allow, Deny
  <1> QED BY <1>1 DEF Authorize

LEMMA RanIsFinite == ASSUME TypeOK, NEW t PROVE IsFiniteSet(Ran(t)) /\ Cardinality(Ran(t)) \in Nat
  <1>1. Len(jobs) \in Nat /\ DOMAIN jobs = 1 .. Len(jobs)
    BY LenProperties DEF TypeOK
  <1>2. IsFiniteSet(1 .. Len(jobs))
    BY <1>1, FS_Interval
  <1>3. Ran(t) \in SUBSET (1 .. Len(jobs))
    BY <1>1 DEF Ran
  <1> QED BY <1>2, <1>3, FS_Subset, FS_CardinalityType

LEMMA SameRan ==
  ASSUME DOMAIN jobs' = DOMAIN jobs, \A i \in DOMAIN jobs : jobs'[i].tool = jobs[i].tool, NEW t
  PROVE  Ran(t)' = Ran(t)
  BY DEF Ran

LEMMA QuotaInit == Init => QuotaInv
  <1> SUFFICES ASSUME Init PROVE QuotaInv
    OBVIOUS
  <1>1. jobs = << >> /\ state.total = 0 /\ walk = "turn" /\ Len(jobs) = 0
    BY DEF Init
  <1>2. \A t \in Tools : Ran(t) = {} /\ Cardinality(Ran(t)) = 0
    BY <1>1, FS_EmptySet DEF Ran
  <1>3. \A t \in Tools : state.calls[t] = 0
    BY DEF Init
  <1>4. Counted
    BY <1>1, <1>2, <1>3 DEF Counted, Uncounted
  <1>5. Granted
    BY <1>1, <1>2, InputAssumption DEF Granted
  <1> QED BY <1>4, <1>5, TypeInit DEF QuotaInv

\* A call that is counted, whether it ran or not.
LEMMA CountedOnce ==
  ASSUME QuotaInv, NEW tool \in CallTools, NEW decision \in {"denied", "authorized", "error", "timeout"},
         NEW changes \in Seq(Changes), Audited(tool, decision, changes),
         walk = "turn" \/ (walk = "call" /\ jobs[Len(jobs)].tool = tool),
         Len(jobs') = Len(jobs), DOMAIN jobs' = DOMAIN jobs,
         \A i \in DOMAIN jobs : jobs'[i].tool = jobs[i].tool
  PROVE  Counted' /\ Granted'
  <1>1. /\ walk' = "turn" /\ state'.calls[tool] = state.calls[tool] + 1
        /\ state'.total = state.total + 1
        /\ \A t \in CallTools : t # tool => state'.calls[t] = state.calls[t]
    BY AuditTyped DEF QuotaInv
  <1>2. /\ state.total \in Nat /\ Len(jobs) \in Nat
        /\ \A t \in Tools : /\ state.calls[t] \in Nat /\ t \in CallTools
                           /\ Cardinality(Ran(t)) \in Nat
    BY RanIsFinite, LenProperties DEF QuotaInv, TypeOK, CallTools
  <1>3. \A t \in Tools : Ran(t)' = Ran(t) /\ Uncounted(t)' = 0
    BY <1>1, SameRan DEF Uncounted
  <1>4. Len(jobs') <= state'.total + 0
    BY <1>1, <1>2 DEF QuotaInv, Counted
  <1>5. ASSUME NEW t \in Tools PROVE Cardinality(Ran(t)) <= state'.calls[t] + 0
    <2>1. Cardinality(Ran(t)) <= state.calls[t] + Uncounted(t)
      BY DEF QuotaInv, Counted
    <2>2. Uncounted(t) \in {0, 1} /\ (Uncounted(t) = 1 => t = tool)
      BY DEF Uncounted
    <2> QED BY <1>1, <1>2, <2>1, <2>2
  <1>6. Counted'
    BY <1>1, <1>3, <1>4, <1>5 DEF Counted
  <1>7. Granted'
    BY <1>3 DEF Granted, QuotaInv
  <1> QED BY <1>6, <1>7

LEMMA QuotaExecute ==
  ASSUME QuotaInv, NEW call \in Calls, Execute(call)
  PROVE  Counted' /\ Granted'
  <1> DEFINE tool == call.tool
             n    == Len(jobs)
  <1>1. Available(Registry, Grant, tool, state)
    BY AllowedIsAvailable, PhaseGrantNarrows DEF Execute, Answers
  <1>2. /\ tool \in Tools /\ tool \in DOMAIN Grant.entries
        /\ state.calls[tool] < Grant.entries[tool].max /\ state.total < Grant.total
        /\ Registry[tool].mutating => Grant.entries[tool].mutating
    BY <1>1 DEF Available, Tools
  <1>3. /\ Len(jobs') = n + 1 /\ DOMAIN jobs' = 1 .. n + 1 /\ jobs'[n + 1] = Started(call)
        /\ \A i \in DOMAIN jobs : jobs'[i] = jobs[i]
        /\ walk = "turn" /\ walk' = "call" /\ state' = state
        /\ n \in Nat /\ DOMAIN jobs = 1 .. n
    BY ExecuteStarts, LenProperties DEF QuotaInv, TypeOK, Execute
  <1>4. Started(call).tool = tool
    BY DEF Started
  <1>5. /\ state.total \in Nat /\ Grant.total \in Nat /\ Grant.entries[tool].max \in Nat
        /\ \A t \in Tools : /\ state.calls[t] \in Nat /\ IsFiniteSet(Ran(t))
                           /\ Cardinality(Ran(t)) \in Nat
    BY <1>2, RanIsFinite, InputAssumption DEF QuotaInv, TypeOK, CallTools
  <1>6. /\ n <= state.total
        /\ \A t \in Tools : Cardinality(Ran(t)) <= state.calls[t]
    <2>1. \A t \in Tools : Uncounted(t) = 0
      BY <1>3 DEF Uncounted
    <2> QED BY <1>3, <1>5, <2>1 DEF QuotaInv, Counted
  <1>7. Ran(tool)' = Ran(tool) \cup {n + 1} /\ n + 1 \notin Ran(tool)
    BY <1>3, <1>4 DEF Ran
  <1>8. Cardinality(Ran(tool)') = Cardinality(Ran(tool)) + 1
    BY <1>2, <1>5, <1>7, FS_AddElement
  <1>9. \A t \in Tools : t # tool => Ran(t)' = Ran(t)
    BY <1>3, <1>4 DEF Ran
  <1>10. \A t \in Tools : Uncounted(t)' = IF t = tool THEN 1 ELSE 0
    BY <1>3, <1>4 DEF Uncounted
  <1>11. Counted'
    <2>1. Len(jobs') <= state'.total + 1
      BY <1>3, <1>5, <1>6
    <2>2. ASSUME NEW t \in Tools PROVE Cardinality(Ran(t)') <= state'.calls[t] + Uncounted(t)'
      <3>1. CASE t = tool
        BY <1>3, <1>5, <1>6, <1>8, <1>10, <3>1
      <3>2. CASE t # tool
        BY <1>3, <1>5, <1>6, <1>9, <1>10, <3>2
      <3> QED BY <3>1, <3>2
    <2> QED BY <1>3, <2>1, <2>2 DEF Counted
  <1>12. Granted'
    <2>1. Len(jobs') <= Grant.total
      BY <1>2, <1>3, <1>5, <1>6
    <2>2. Cardinality(Ran(tool)') <= Grant.entries[tool].max
      BY <1>2, <1>5, <1>6, <1>8
    <2> QED BY <1>2, <1>9, <2>1, <2>2 DEF Granted, QuotaInv
  <1> QED BY <1>11, <1>12

LEMMA QuotaStep == QuotaInv /\ [Next]_vars => QuotaInv'
  <1> SUFFICES ASSUME QuotaInv, [Next]_vars PROVE QuotaInv'
    OBVIOUS
  <1>1. TypeOK /\ TypeOK'
    BY TypeStep DEF QuotaInv
  <1> SUFFICES Counted' /\ Granted'
    BY <1>1 DEF QuotaInv
  <1>2. ASSUME UNCHANGED <<state, walk>>, Len(jobs') = Len(jobs), DOMAIN jobs' = DOMAIN jobs,
               \A i \in DOMAIN jobs : jobs'[i].tool = jobs[i].tool
        PROVE  Counted' /\ Granted'
    <2>1. \A t \in Tools : Ran(t)' = Ran(t)
      BY <1>2, SameRan
    <2>2. walk \in {"call", "failed"} => jobs'[Len(jobs')].tool = jobs[Len(jobs)].tool
      BY <1>1, <1>2, LastJob
    <2>3. \A t \in Tools : Uncounted(t)' = Uncounted(t)
      BY <1>2, <2>2 DEF Uncounted
    <2> QED BY <1>2, <2>1, <2>3 DEF Counted, Granted, QuotaInv
  <1>3. << >> \in Seq(Changes)
    OBVIOUS
  <1>4. ASSUME NEW call \in Calls, Refuse(call) PROVE Counted' /\ Granted'
    <2>1. /\ call.tool \in CallTools /\ walk = "turn" /\ jobs' = jobs
          /\ Audited(call.tool, "denied", << >>)
      BY <1>4 DEF Refuse, CallTools
    <2>2. /\ Len(jobs') = Len(jobs) /\ DOMAIN jobs' = DOMAIN jobs
          /\ \A i \in DOMAIN jobs : jobs'[i].tool = jobs[i].tool
          /\ walk = "turn" \/ (walk = "call" /\ jobs[Len(jobs)].tool = call.tool)
          /\ "denied" \in {"denied", "authorized", "error", "timeout"}
      BY <2>1
    <2> QED BY <1>3, <2>1, <2>2, CountedOnce
  <1>5. ASSUME NEW call \in Calls, Execute(call) PROVE Counted' /\ Granted'
    BY <1>5, QuotaExecute
  <1>6. CASE Answer
    <2>1. /\ jobs[Len(jobs)].tool \in CallTools /\ jobs[Len(jobs)].changes \in Seq(Changes)
          /\ walk = "call" /\ jobs' = jobs
      BY <1>1, <1>6, AnswerAudits DEF Jobs
    <2>2. \/ Audited(jobs[Len(jobs)].tool, "authorized", jobs[Len(jobs)].changes)
          \/ Audited(jobs[Len(jobs)].tool, "error", << >>)
      BY <1>1, <1>6, AnswerAudits
    <2> QED BY <1>3, <2>1, <2>2, CountedOnce
  <1>7. CASE Timeout
    <2>1. jobs[Len(jobs)].tool \in CallTools
      BY <1>1, <1>7, TimeoutLeaves DEF Jobs
    <2> QED BY <1>1, <1>3, <1>7, <2>1, TimeoutLeaves, CountedOnce
  <1>8. CASE AuditFails
    <2>1. walk = "call" /\ walk' = "failed" /\ UNCHANGED <<jobs, state>>
      BY <1>8 DEF AuditFails
    <2>2. \A t \in Tools : Ran(t)' = Ran(t) /\ Uncounted(t)' = Uncounted(t)
      BY <2>1 DEF Ran, Uncounted
    <2> QED BY <2>1, <2>2 DEF Counted, Granted, QuotaInv
  <1>9. CASE EnterPhase
    BY <1>2, <1>9 DEF EnterPhase
  <1>10. CASE Collect
    <2>1. walk = "turn" /\ walk' = "ended" /\ UNCHANGED <<jobs, state>>
      BY <1>10 DEF Collect
    <2>2. \A t \in Tools : Ran(t)' = Ran(t) /\ Uncounted(t)' = Uncounted(t)
      BY <2>1 DEF Ran, Uncounted
    <2> QED BY <2>1, <2>2 DEF Counted, Granted, QuotaInv
  <1>11. ASSUME NEW j \in DOMAIN jobs, Run(j) PROVE Counted' /\ Granted'
    <2>1. UNCHANGED <<state, walk>>
      BY <1>11 DEF Run, walkVars
    <2>2. PICK job : Moves(j, job)
      BY <1>1, <1>11, RunTyped
    <2> QED BY <1>1, <1>2, <2>1, <2>2, MovesKeeps
  <1>12. CASE UNCHANGED vars
    BY <1>2, <1>12 DEF vars
  <1> QED BY <1>1, <1>4, <1>5, <1>6, <1>7, <1>8, <1>9, <1>10, <1>11, <1>12 DEF Next, QuotaInv

\* What ran is within the grant over all phases, for every registry, grant and
\* list of calls, whatever times out, fails or is denied: CallState counts each
\* call after its audit and Authorize holds the next against it.
THEOREM QuotasHold == Spec => []QuotasBound
  <1>1. QuotaInv => QuotasBound
    BY GrantedIsQuotasBound DEF QuotaInv
  <1> QED BY <1>1, QuotaInit, QuotaStep, PTL DEF Spec

(***************************************************************************)
(* Patches and the artifact.  Every executor that still moves is the one   *)
(* of the call the walk is at, or was left to itself and keeps to the      *)
(* paths of its own call.  For any other path the undo journal can restore *)
(* what the call found, and the changes reported so far explain what is    *)
(* there.                                                                  *)
(***************************************************************************)

Touches(op, f)   == \E i \in DOMAIN Touched(op) : Touched(op)[i] = f
Names(job, f)    == \E k \in DOMAIN job.ops : Touches(job.ops[k], f)
Journals(job, f) == \E i \in DOMAIN job.journal : job.journal[i][1] = f
Strayed(f) == \E j \in DOMAIN jobs : jobs[j].left /\ Names(jobs[j], f)

\* The journal knows the paths of its call, and those of the operation at hand.
JournalOf(job) ==
    /\ \A f \in Files : Journals(job, f) => Names(job, f)
    /\ Transactional(job) /\ job.at = "apply" =>
         \A f \in Files : Touches(Op(job), f) => Journals(job, f)

\* Undoing the journal from its end restores f.
Restorable(fs, job, f) ==
    IF Journals(job, f)
    THEN \E i \in DOMAIN job.journal :
            /\ job.journal[i] = <<f, job.before[f]>>
            /\ \A k \in DOMAIN job.journal : k < i => job.journal[k][1] # f
    ELSE fs[f] = job.before[f]

\* What an executor that alone writes f has made of it so far.
Tracks(fs, job, f, replayed) ==
    /\ job.before[f] = replayed[f]
    /\ ~Names(job, f) => fs[f] = replayed[f]
    /\ job.at \in {"validate", "refused"} => fs[f] = replayed[f]
    /\ ~Transactional(job) /\ job.at = "apply" => fs[f] = replayed[f]
    /\ job.at \in {"snapshot", "apply", "done"} =>
         fs[f] = FoldLeft(Put, replayed, job.changes)[f]
    /\ Transactional(job) /\ job.at \in {"snapshot", "apply", "rollback"} =>
         Restorable(fs, job, f)

Settled ==
    /\ \A j \in DOMAIN jobs :
         \/ jobs[j].left \/ jobs[j].at \in {"done", "refused"}
         \/ walk = "call" /\ j = Len(jobs)
    /\ walk = "call" => ~jobs[Len(jobs)].left
    /\ \A j \in DOMAIN jobs : JournalOf(jobs[j])

Explained(f) ==
    /\ walk = "turn"  => files[f] = Replay(Began)[f]
    /\ walk = "call"  => Tracks(files, jobs[Len(jobs)], f, Replay(Began))
    /\ walk = "ended" => artifact[f] = Replay(Began)[f]

FilesInv ==
    TypeOK /\ Settled /\ (~unseen => \A f \in Files : ~Strayed(f) => Explained(f))

\* The operations done so far, in their order.
EffectInv ==
    walk = "call" /\ Quiet =>
        LET job == jobs[Len(jobs)] IN
        /\ job.at \in {"snapshot", "apply"} =>
             files = FoldLeft(Effect, job.before, SubSeq(job.ops, 1, job.next - 1))
        /\ job.at = "done" => files = FoldLeft(Effect, job.before, job.ops)

LEMMA TouchesShapes ==
  ASSUME NEW op \in Operations, NEW f
  PROVE  /\ op.op # "rename" => (Touches(op, f) <=> f = op.path)
         /\ op.op = "rename" => (Touches(op, f) <=> f = op.from \/ f = op.to)
  <1>1. CASE op.op # "rename"
    <2>1. Touched(op) = <<op.path>>
      BY <1>1, TouchedShapes
    <2> QED BY <1>1, <2>1 DEF Touches
  <1>2. CASE op.op = "rename"
    <2>1. Touched(op) = <<op.from, op.to>>
      BY <1>2, TouchedShapes
    <2> QED BY <1>2, <2>1 DEF Touches
  <1> QED BY <1>1, <1>2

LEMMA EffectAt ==
  ASSUME NEW op \in Operations, NEW fs \in Dirs, NEW f \in Files
  PROVE  /\ ~Touches(op, f) => Effect(fs, op)[f] = fs[f]
         /\ op.op = "write" => Effect(fs, op)[f] = IF f = op.path THEN op.content ELSE fs[f]
         /\ op.op = "delete" => Effect(fs, op)[f] = IF f = op.path THEN Absent ELSE fs[f]
         /\ op.op = "rename" =>
              Effect(fs, op)[f] = IF f = op.to THEN fs[op.from]
                                  ELSE IF f = op.from THEN Absent ELSE fs[f]
  <1>1. CASE op.op = "write" /\ op.path \in Files
    <2>1. Effect(fs, op) = [fs EXCEPT ![op.path] = op.content]
      BY <1>1, EffectShapes
    <2> QED BY <1>1, <2>1, TouchesShapes DEF Dirs
  <1>2. CASE op.op = "delete" /\ op.path \in Files
    <2>1. Effect(fs, op) = [fs EXCEPT ![op.path] = Absent]
      BY <1>2, EffectShapes
    <2> QED BY <1>2, <2>1, TouchesShapes DEF Dirs
  <1>3. CASE op.op = "rename" /\ op.from \in Files /\ op.to \in Files
    <2>1. Effect(fs, op) = [fs EXCEPT ![op.from] = Absent, ![op.to] = fs[op.from]]
      BY <1>3, EffectShapes
    <2> QED BY <1>3, <2>1, TouchesShapes DEF Dirs
  <1> QED BY <1>1, <1>2, <1>3, OperationShapes

LEMMA ConcatShort ==
  ASSUME NEW S, NEW s \in Seq(S)
  PROVE  /\ \A x \in S : s \o <<x>> = Append(s, x)
         /\ \A x, y \in S : s \o <<x, y>> = Append(Append(s, x), y)
  OBVIOUS

\* The changes an operation reports are its effect, for every path whose
\* value the changes before it explain.
LEMMA RecordsTell ==
  ASSUME files \in Dirs, NEW op \in Operations, NEW cs \in Seq(Changes), NEW r \in Dirs,
         NEW f \in Files, FoldLeft(Put, r, cs)[f] = files[f]
  PROVE  FoldLeft(Put, r, cs \o Records(op))[f] = Effect(files, op)[f]
  <1> DEFINE x == FoldLeft(Put, r, cs)
  <1>0. x \in Dirs /\ \A c \in Changes : FoldLeft(Put, r, Append(cs, c)) = Put(x, c)
    BY PutAllOf
  <1>1. \A p \in Files, w \in {"write", "delete", "rename-from", "rename-to"},
           o \in Data \cup {""}, n \in Data : Change(p, w, o, n) \in Changes
    BY DEF Change, Changes
  <1>2. /\ Absent \in Data /\ Contents \subseteq Data /\ \A p \in Files : files[p] \in Data
        /\ \A c, y : Put(y, c) = [y EXCEPT ![c.path] = c.new]
    BY DEF Data, Dirs, Put
  <1>3. CASE op.op = "write" /\ op.path \in Files /\ op.content \in Contents
    <2> DEFINE c == Change(op.path, "write", files[op.path], op.content)
    <2>1. c \in Changes /\ c.path = op.path /\ c.new = op.content
      BY <1>1, <1>2, <1>3 DEF Change
    <2>2. Records(op) = <<c>>
      BY <1>3, RecordsShapes
    <2> HIDE DEF c
    <2>3. cs \o Records(op) = Append(cs, c)
      BY <2>1, <2>2, ConcatShort
    <2>4. FoldLeft(Put, r, cs \o Records(op)) = Put(x, c)
      BY <1>0, <2>1, <2>3, Zenon
    <2>5. FoldLeft(Put, r, cs \o Records(op)) = [x EXCEPT ![op.path] = op.content]
      BY <1>2, <2>1, <2>4, Zenon
    <2> QED BY <1>0, <1>3, <2>5, EffectAt DEF Dirs
  <1>4. CASE op.op = "delete" /\ op.path \in Files
    <2> DEFINE c == Change(op.path, "delete", files[op.path], Absent)
    <2>1. c \in Changes /\ c.path = op.path /\ c.new = Absent
      BY <1>1, <1>2, <1>4 DEF Change
    <2>2. Records(op) = <<c>>
      BY <1>4, RecordsShapes
    <2> HIDE DEF c
    <2>3. cs \o Records(op) = Append(cs, c)
      BY <2>1, <2>2, ConcatShort
    <2>4. FoldLeft(Put, r, cs \o Records(op)) = Put(x, c)
      BY <1>0, <2>1, <2>3, Zenon
    <2>5. FoldLeft(Put, r, cs \o Records(op)) = [x EXCEPT ![op.path] = Absent]
      BY <1>2, <2>1, <2>4, Zenon
    <2> QED BY <1>0, <1>4, <2>5, EffectAt DEF Dirs
  <1>5. CASE op.op = "rename" /\ op.from \in Files /\ op.to \in Files
    <2> DEFINE c == Change(op.from, "rename-from", files[op.from], Absent)
               d == Change(op.to, "rename-to", "", files[op.from])
    <2>1. /\ c \in Changes /\ c.path = op.from /\ c.new = Absent
          /\ d \in Changes /\ d.path = op.to /\ d.new = files[op.from]
      BY <1>1, <1>2, <1>5 DEF Change
    <2>2. Records(op) = <<c, d>>
      BY <1>5, RecordsShapes
    <2> HIDE DEF c, d
    <2>3. Append(cs, c) \in Seq(Changes)
      BY <2>1
    <2>4. FoldLeft(Put, r, Append(Append(cs, c), d)) = Put(FoldLeft(Put, r, Append(cs, c)), d)
      BY <2>1, <2>3, PutAllOf
    <2>5. cs \o Records(op) = Append(Append(cs, c), d)
      BY <2>1, <2>2, ConcatShort
    <2>6. FoldLeft(Put, r, cs \o Records(op)) = Put(Put(x, c), d)
      BY <1>0, <2>1, <2>4, <2>5, Zenon
    <2>7. FoldLeft(Put, r, cs \o Records(op)) =
            [[x EXCEPT ![op.from] = Absent] EXCEPT ![op.to] = files[op.from]]
      BY <1>2, <2>1, <2>6, Zenon
    <2> QED BY <1>0, <1>5, <2>7, EffectAt DEF Dirs
  <1> QED BY <1>3, <1>4, <1>5, OperationShapes

LEMMA JournalGrows ==
  ASSUME NEW job \in Jobs, Op(job) \in Operations,
         NEW as \in [DOMAIN Touched(Op(job)) -> Data]
  PROVE  LET J == job.journal  N == Noted(job, as).journal  T == Touched(Op(job)) IN
         /\ Len(J) \in Nat /\ DOMAIN J = 1 .. Len(J)
         /\ \A i \in DOMAIN J : i \in DOMAIN N /\ N[i] = J[i]
         /\ \A i \in DOMAIN T : Len(J) + i \in DOMAIN N /\ N[Len(J) + i] = <<T[i], as[i]>>
         /\ \A k \in DOMAIN N : k \in DOMAIN J \/ \E i \in DOMAIN T : k = Len(J) + i
  <1> DEFINE J == job.journal
             A == Notes(Op(job), as)
             N == J \o A
             T == Touched(Op(job))
  <1>1. Noted(job, as).journal = N
    BY DEF Noted, Jobs
  <1>2. PICK n \in Nat : DOMAIN T = 1 .. n
    BY TouchedShapes
  <1>3. /\ \A i \in DOMAIN T : A[i] = <<T[i], as[i]>> /\ T[i] \in Files
        /\ A \in [1 .. n -> Files \X Data]
    <2>1. \A i \in DOMAIN T : T[i] \in Files
      BY TouchedShapes
    <2> QED BY <1>2, <2>1 DEF Notes
  <1>4. J \in Seq(Files \X Data) /\ A \in Seq(Files \X Data) /\ Len(A) = n
    BY <1>3, FunctionIsSeq DEF Jobs
  <1> HIDE DEF A, J, T
  <1>5. /\ N \in Seq(Files \X Data) /\ Len(N) = Len(J) + n /\ Len(J) \in Nat
        /\ DOMAIN N = 1 .. Len(J) + n /\ DOMAIN J = 1 .. Len(J)
        /\ \A i \in 1 .. Len(J) + n : N[i] = IF i <= Len(J) THEN J[i] ELSE A[i - Len(J)]
    BY <1>4, ConcatProperties, LenProperties
  <1> HIDE DEF N
  <1>6. \A i \in DOMAIN J : i \in DOMAIN N /\ N[i] = J[i]
    BY <1>5
  <1>7. \A i \in DOMAIN T : Len(J) + i \in DOMAIN N /\ N[Len(J) + i] = <<T[i], as[i]>>
    <2> TAKE i \in DOMAIN T
    <2>1. i \in 1 .. n /\ (Len(J) + i) - Len(J) = i /\ Len(J) + i \in 1 .. Len(J) + n
          /\ ~(Len(J) + i <= Len(J))
      BY <1>2, <1>5
    <2> QED BY <1>3, <1>5, <2>1
  <1>8. \A k \in DOMAIN N : k \in DOMAIN J \/ \E i \in DOMAIN T : k = Len(J) + i
    <2> TAKE k \in DOMAIN N
    <2>1. k \in 1 .. Len(J) \/ (k - Len(J) \in 1 .. n /\ k = Len(J) + (k - Len(J)))
      BY <1>5
    <2> QED BY <1>2, <1>5, <2>1
  <1> QED BY <1>1, <1>5, <1>6, <1>7, <1>8 DEF J, T

LEMMA NotedJournals ==
  ASSUME NEW job \in Jobs, Op(job) \in Operations,
         NEW as \in [DOMAIN Touched(Op(job)) -> Data], NEW f
  PROVE  Journals(Noted(job, as), f) <=> Journals(job, f) \/ Touches(Op(job), f)
  <1> DEFINE J == job.journal
             N == Noted(job, as).journal
             T == Touched(Op(job))
  <1>1. /\ \A i \in DOMAIN J : i \in DOMAIN N /\ N[i] = J[i]
        /\ \A i \in DOMAIN T : Len(J) + i \in DOMAIN N /\ N[Len(J) + i] = <<T[i], as[i]>>
        /\ \A k \in DOMAIN N : k \in DOMAIN J \/ \E i \in DOMAIN T : k = Len(J) + i
    BY JournalGrows
  <1> HIDE DEF J, N, T
  <1>2. ASSUME NEW k \in DOMAIN N, N[k][1] = f
        PROVE  (\E i \in DOMAIN J : J[i][1] = f) \/ (\E i \in DOMAIN T : T[i] = f)
    <2>1. CASE k \in DOMAIN J
      <3>1. N[k] = J[k]
        BY <1>1, <2>1
      <3> QED BY <1>2, <2>1, <3>1
    <2>2. CASE k \notin DOMAIN J
      <3>1. PICK i \in DOMAIN T : k = Len(J) + i
        BY <1>1, <2>2
      <3>2. N[k] = <<T[i], as[i]>>
        BY <1>1, <3>1
      <3> QED BY <1>2, <3>2
    <2> QED BY <2>1, <2>2
  <1>3. ASSUME NEW i \in DOMAIN J, J[i][1] = f PROVE \E k \in DOMAIN N : N[k][1] = f
    BY <1>1, <1>3
  <1>4. ASSUME NEW i \in DOMAIN T, T[i] = f PROVE \E k \in DOMAIN N : N[k][1] = f
    <2>1. Len(J) + i \in DOMAIN N /\ N[Len(J) + i] = <<T[i], as[i]>>
      BY <1>1
    <2> QED BY <1>4, <2>1
  <1>5. (\E k \in DOMAIN N : N[k][1] = f)
          <=> (\E i \in DOMAIN J : J[i][1] = f) \/ (\E i \in DOMAIN T : T[i] = f)
    BY <1>2, <1>3, <1>4
  <1> QED BY <1>5 DEF J, N, T, Journals, Touches

\* A snapshot of what is there keeps f restorable.
LEMMA NotedRestores ==
  ASSUME NEW job \in Jobs, Op(job) \in Operations, files \in Dirs, NEW f \in Files,
         Restorable(files, job, f)
  PROVE  Restorable(files, Noted(job, Seen(Op(job))), f)
  <1> DEFINE as == Seen(Op(job))
             J == job.journal
             N == Noted(job, as).journal
             T == Touched(Op(job))
  <1>0. as \in [DOMAIN T -> Data] /\ Noted(job, as).before = job.before
    <2>1. \A i \in DOMAIN T : T[i] \in Files
      BY TouchedShapes
    <2> QED BY <2>1 DEF Seen, Dirs, Noted, Jobs
  <1>1. /\ Len(J) \in Nat /\ DOMAIN J = 1 .. Len(J)
        /\ \A i \in DOMAIN J : i \in DOMAIN N /\ N[i] = J[i]
        /\ \A i \in DOMAIN T : Len(J) + i \in DOMAIN N /\ N[Len(J) + i] = <<T[i], as[i]>>
        /\ \A k \in DOMAIN N : k \in DOMAIN J \/ \E i \in DOMAIN T : k = Len(J) + i
    BY <1>0, JournalGrows
  <1>2. \A i \in DOMAIN T : as[i] = files[T[i]]
    BY DEF Seen
  <1>3. DOMAIN T \in {1 .. 1, 1 .. 2}
    BY TouchedShapes
  <1>4. Journals(Noted(job, as), f) <=> Journals(job, f) \/ Touches(Op(job), f)
    BY <1>0, NotedJournals
  <1>5. CASE Journals(job, f)
    <2>1. PICK i \in DOMAIN J : /\ J[i] = <<f, job.before[f]>>
                                /\ \A k \in DOMAIN J : k < i => J[k][1] # f
      BY <1>5 DEF Restorable
    <2>2. i \in DOMAIN N /\ N[i] = <<f, job.before[f]>>
      BY <1>1, <2>1
    <2>3. \A k \in DOMAIN N : k < i => N[k][1] # f
      <3> TAKE k \in DOMAIN N
      <3> HAVE k < i
      <3>1. k \in DOMAIN J
        <4>1. \A m \in DOMAIN T : m \in Nat
          BY <1>3
        <4> QED BY <1>1, <2>1, <4>1
      <3> QED BY <1>1, <2>1, <3>1
    <2> HIDE DEF N
    <2>4. \E m \in DOMAIN N : N[m] = <<f, job.before[f]>> /\ \A k \in DOMAIN N : k < m => N[k][1] # f
      BY <2>2, <2>3
    <2> QED BY <1>0, <1>4, <1>5, <2>4 DEF Restorable, N
  <1>6. CASE ~Journals(job, f) /\ Touches(Op(job), f)
    <2>1. files[f] = job.before[f] /\ \A k \in DOMAIN J : J[k][1] # f
      BY <1>6 DEF Restorable, Journals
    <2>2. PICK i \in DOMAIN T : T[i] = f /\ \A m \in DOMAIN T : m < i => T[m] # f
      <3>1. PICK m \in DOMAIN T : T[m] = f
        BY <1>6 DEF Touches
      <3> QED BY <1>3, <3>1
    <2>3. Len(J) + i \in DOMAIN N /\ N[Len(J) + i] = <<f, job.before[f]>>
      BY <1>1, <1>2, <2>1, <2>2
    <2>4. \A k \in DOMAIN N : k < Len(J) + i => N[k][1] # f
      <3> TAKE k \in DOMAIN N
      <3> HAVE k < Len(J) + i
      <3>1. CASE k \in DOMAIN J
        BY <1>1, <2>1, <3>1
      <3>2. CASE k \notin DOMAIN J
        <4>1. PICK m \in DOMAIN T : k = Len(J) + m
          BY <1>1, <3>2
        <4>2. m \in Nat /\ i \in Nat
          BY <1>3
        <4>3. m < i
          BY <1>1, <4>1, <4>2
        <4> QED BY <1>1, <2>2, <4>1, <4>3
      <3> QED BY <3>1, <3>2
    <2> HIDE DEF N
    <2>5. \E m \in DOMAIN N : N[m] = <<f, job.before[f]>> /\ \A k \in DOMAIN N : k < m => N[k][1] # f
      BY <2>3, <2>4
    <2> QED BY <1>0, <1>4, <1>6, <2>5 DEF Restorable, N
  <1>7. CASE ~Journals(job, f) /\ ~Touches(Op(job), f)
    BY <1>0, <1>4, <1>7 DEF Restorable
  <1> QED BY <1>5, <1>6, <1>7

\* The last entry is undone and taken off.
LEMMA UndoneJournals ==
  ASSUME NEW job \in Jobs, job.journal # << >>, files \in Dirs, NEW f \in Files
  PROVE  LET J  == job.journal
             F  == Undone(job).journal
             fs == [files EXCEPT ![Last(J)[1]] = Last(J)[2]]
         IN /\ Undone(job).before = job.before
            /\ Len(J) \in Nat /\ Len(J) # 0 /\ DOMAIN J = 1 .. Len(J)
            /\ DOMAIN F = 1 .. Len(J) - 1 /\ \A i \in 1 .. Len(J) - 1 : F[i] = J[i]
            /\ fs[f] = IF J[Len(J)][1] = f THEN J[Len(J)][2] ELSE files[f]
            /\ Journals(job, f) <=> Journals(Undone(job), f) \/ J[Len(J)][1] = f
  <1> DEFINE J  == job.journal
             F  == Undone(job).journal
             fs == [files EXCEPT ![Last(J)[1]] = Last(J)[2]]
  <1>1. J \in Seq(Files \X Data) /\ F = Front(J) /\ Undone(job).before = job.before
    BY DEF Undone, Jobs
  <1>2. Len(J) \in Nat /\ Len(J) # 0 /\ DOMAIN J = 1 .. Len(J)
    BY <1>1, EmptySeq, LenProperties
  <1>3. DOMAIN F = 1 .. Len(J) - 1 /\ \A i \in 1 .. Len(J) - 1 : F[i] = J[i]
    BY <1>1, FrontShapes
  <1>4. fs[f] = IF J[Len(J)][1] = f THEN J[Len(J)][2] ELSE files[f]
    BY DEF Dirs, Last
  <1> HIDE DEF F, fs, J
  <1>5. Journals(job, f) <=> Journals(Undone(job), f) \/ J[Len(J)][1] = f
    <2>0. Len(J) \in Nat /\ Len(J) # 0
      BY <1>2
    <2>1. \A i \in 1 .. Len(J) : i \in 1 .. Len(J) - 1 \/ i = Len(J)
      BY <2>0
    <2>2. Len(J) \in 1 .. Len(J) /\ \A i \in 1 .. Len(J) - 1 : i \in 1 .. Len(J)
      BY <2>0
    <2>3. /\ Journals(job, f) <=> \E i \in 1 .. Len(J) : J[i][1] = f
          /\ Journals(Undone(job), f) <=> \E i \in 1 .. Len(J) - 1 : F[i][1] = f
      BY <1>2, <1>3 DEF Journals, J, F
    <2> QED BY <1>3, <2>1, <2>2, <2>3
  <1> QED BY <1>1, <1>2, <1>3, <1>4, <1>5 DEF J, F, fs

\* Undoing it keeps f restorable.
LEMMA UndoneRestores ==
  ASSUME NEW job \in Jobs, job.journal # << >>, files \in Dirs, NEW f \in Files,
         Restorable(files, job, f)
  PROVE  Restorable([files EXCEPT ![Last(job.journal)[1]] = Last(job.journal)[2]], Undone(job), f)
  <1> DEFINE J  == job.journal
             F  == Undone(job).journal
             fs == [files EXCEPT ![Last(J)[1]] = Last(J)[2]]
  <1>1. /\ Undone(job).before = job.before
        /\ Len(J) \in Nat /\ Len(J) # 0 /\ DOMAIN J = 1 .. Len(J)
        /\ DOMAIN F = 1 .. Len(J) - 1 /\ \A i \in 1 .. Len(J) - 1 : F[i] = J[i]
        /\ fs[f] = IF J[Len(J)][1] = f THEN J[Len(J)][2] ELSE files[f]
        /\ Journals(job, f) <=> Journals(Undone(job), f) \/ J[Len(J)][1] = f
    BY UndoneJournals
  <1> HIDE DEF F, fs, J
  <1>2. CASE Journals(job, f)
    <2>1. PICK i \in DOMAIN J : /\ J[i] = <<f, job.before[f]>>
                                /\ \A k \in DOMAIN J : k < i => J[k][1] # f
      BY <1>2 DEF Restorable, J
    <2>2. CASE i = Len(J)
      <3>1. \A k \in DOMAIN F : F[k][1] # f
        BY <1>1, <2>1, <2>2
      <3>2. fs[f] = job.before[f]
        BY <1>1, <2>1, <2>2
      <3>3. ~Journals(Undone(job), f)
        BY <3>1 DEF Journals, F
      <3> QED BY <1>1, <3>2, <3>3 DEF Restorable, fs, J
    <2>3. CASE i # Len(J)
      <3>1. i \in DOMAIN F /\ F[i] = <<f, job.before[f]>> /\ \A k \in DOMAIN F : k < i => F[k][1] # f
        BY <1>1, <2>1, <2>3, SMTT(30)
      <3>2. Journals(Undone(job), f)
        BY <3>1 DEF Journals, F
      <3> QED BY <1>1, <3>1, <3>2 DEF Restorable, F
    <2> QED BY <2>2, <2>3
  <1>3. CASE ~Journals(job, f)
    <2>1. ~Journals(Undone(job), f) /\ fs[f] = files[f] /\ files[f] = job.before[f]
      BY <1>1, <1>3 DEF Restorable
    <2> QED BY <1>1, <2>1 DEF Restorable, fs, J
  <1> QED BY <1>2, <1>3

\* What a step of an executor does, for the job it makes of it.
Keeps(j, job) ==
    /\ JournalOf(job) /\ job.at # "validate"
    /\ \A f \in Files : ~Names(jobs[j], f) => files'[f] = files[f]
    /\ ~unseen' => ~unseen /\ \A f \in Files, r \in Dirs :
         Tracks(files, jobs[j], f, r) => Tracks(files', job, f, r)

\* The same job at another place, with its journal.
LEMMA JobElsewhere ==
  ASSUME NEW job \in Jobs, NEW where
  PROVE  LET new == [job EXCEPT !.at = where] IN
         /\ new.at = where /\ new.ops = job.ops /\ new.before = job.before
         /\ new.changes = job.changes /\ new.journal = job.journal /\ new.next = job.next
         /\ Transactional(new) <=> Transactional(job)
         /\ Op(new) = Op(job)
         /\ \A f : Names(new, f) <=> Names(job, f)
         /\ \A f : Journals(new, f) <=> Journals(job, f)
         /\ \A fs, f : Restorable(fs, new, f) <=> Restorable(fs, job, f)
  <1> DEFINE new == [job EXCEPT !.at = where]
  <1>1. /\ new.at = where /\ new.ops = job.ops /\ new.before = job.before
        /\ new.changes = job.changes /\ new.journal = job.journal /\ new.next = job.next
        /\ new.tool = job.tool
    BY DEF Jobs
  <1> HIDE DEF new
  <1>2. (Transactional(new) <=> Transactional(job)) /\ Op(new) = Op(job)
    BY <1>1 DEF Transactional, Op
  <1>3. \A f : (Names(new, f) <=> Names(job, f)) /\ (Journals(new, f) <=> Journals(job, f))
    BY <1>1 DEF Names, Journals
  <1>4. \A fs, f : Restorable(fs, new, f) <=> Restorable(fs, job, f)
    BY <1>1, <1>3 DEF Restorable
  <1> QED BY <1>1, <1>2, <1>3, <1>4 DEF new

\* Operations are named by the call of their job.
LEMMA TouchesNames ==
  ASSUME TypeOK, NEW j \in DOMAIN jobs, jobs[j].at \in {"snapshot", "apply"}, NEW f,
         Touches(Op(jobs[j]), f)
  PROVE  Names(jobs[j], f)
  BY JobTyped DEF Names, Op, Placed

LEMMA NothingPut == ASSUME NEW r \in Dirs PROVE FoldLeft(Put, r, << >>) = r
  <1>1. << >> \in Seq(Changes)
    OBVIOUS
  <1> QED BY <1>1, PutAllOf

LEMMA ReadKeeps ==
  ASSUME TypeOK, NEW j \in DOMAIN jobs, JournalOf(jobs[j]), Read(j)
  PROVE  \E job : Moves(j, job) /\ Keeps(j, job)
  <1>1. PICK where \in {"done", "refused"} : Moves(j, [jobs[j] EXCEPT !.at = where])
    BY ReadMoves
  <1> DEFINE new == [jobs[j] EXCEPT !.at = where]
  <1>2. UNCHANGED <<files, unseen>>
    BY ReadMoves
  <1>3. /\ new.at = where /\ new.before = jobs[j].before /\ new.changes = jobs[j].changes
        /\ \A f : Names(new, f) <=> Names(jobs[j], f)
        /\ \A f : Journals(new, f) <=> Journals(jobs[j], f)
    BY JobTyped, JobElsewhere, SMTT(30)
  <1>4. jobs[j].at = "validate" /\ jobs[j].changes = << >>
    BY JobTyped DEF Read, Placed
  <1> HIDE DEF new
  <1>5. JournalOf(new)
    BY <1>1, <1>3 DEF JournalOf
  <1>6. ASSUME NEW f \in Files, NEW r \in Dirs, Tracks(files, jobs[j], f, r)
        PROVE  Tracks(files', new, f, r)
    <2>1. jobs[j].before[f] = r[f] /\ files[f] = r[f]
      BY <1>4, <1>6 DEF Tracks
    <2>2. files[f] = FoldLeft(Put, r, new.changes)[f]
      BY <1>3, <1>4, <2>1, NothingPut
    <2> QED BY <1>1, <1>2, <1>3, <2>1, <2>2 DEF Tracks
  <1> QED BY <1>1, <1>2, <1>3, <1>5, <1>6 DEF Keeps, new

LEMMA ValidateKeeps ==
  ASSUME TypeOK, NEW j \in DOMAIN jobs, JournalOf(jobs[j]), Validate(j)
  PROVE  \E job : Moves(j, job) /\ Keeps(j, job)
  <1>1. PICK where \in {"snapshot", "apply", "refused"} :
           /\ Moves(j, [jobs[j] EXCEPT !.at = where])
           /\ where = "apply" => ~Transactional(jobs[j])
    BY ValidateMoves
  <1> DEFINE new == [jobs[j] EXCEPT !.at = where]
  <1>2. UNCHANGED <<files, unseen>>
    BY ValidateMoves
  <1>3. /\ new.at = where /\ new.before = jobs[j].before /\ new.changes = jobs[j].changes
        /\ Transactional(new) <=> Transactional(jobs[j])
        /\ \A f : Names(new, f) <=> Names(jobs[j], f)
        /\ \A f : Journals(new, f) <=> Journals(jobs[j], f)
        /\ new.journal = jobs[j].journal
    BY JobTyped, JobElsewhere, SMTT(30)
  <1>4. jobs[j].at = "validate" /\ jobs[j].changes = << >> /\ jobs[j].journal = << >>
    BY JobTyped DEF Validate, Placed
  <1> HIDE DEF new
  <1>5. JournalOf(new)
    BY <1>1, <1>3 DEF JournalOf
  <1>6. ASSUME NEW f \in Files, NEW r \in Dirs, Tracks(files, jobs[j], f, r)
        PROVE  Tracks(files', new, f, r)
    <2>1. jobs[j].before[f] = r[f] /\ files[f] = r[f]
      BY <1>4, <1>6 DEF Tracks
    <2>2. files[f] = FoldLeft(Put, r, new.changes)[f]
      BY <1>3, <1>4, <2>1, NothingPut
    <2>3. ~Journals(new, f)
      BY <1>3, <1>4 DEF Journals
    <2>4. Restorable(files, new, f)
      BY <1>3, <2>1, <2>3 DEF Restorable
    <2> QED BY <1>1, <1>2, <1>3, <2>1, <2>2, <2>4 DEF Tracks
  <1> QED BY <1>1, <1>2, <1>3, <1>5, <1>6 DEF Keeps, new

LEMMA SnapshotKeeps ==
  ASSUME TypeOK, NEW j \in DOMAIN jobs, JournalOf(jobs[j]), Snapshot(j)
  PROVE  \E job : Moves(j, job) /\ Keeps(j, job)
  <1>1. PICK as \in [DOMAIN Touched(Op(jobs[j])) -> Data] :
           /\ Moves(j, Noted(jobs[j], as))
           /\ (as = Seen(Op(jobs[j])) /\ unseen' = unseen) \/ unseen' = TRUE
    BY SnapshotMoves
  <1> DEFINE job == jobs[j]
             new == Noted(job, as)
  <1>2. files' = files
    BY SnapshotMoves
  <1>3. job \in Jobs /\ Op(job) \in Operations /\ job.at = "snapshot" /\ Transactional(job)
    BY JobTyped DEF Snapshot, Placed
  <1>4. /\ new.at = "apply" /\ new.before = job.before /\ new.changes = job.changes
        /\ new.ops = job.ops /\ new.next = job.next /\ new.tool = job.tool
    BY <1>3 DEF Noted, Jobs
  <1>5. \A f : Journals(new, f) <=> Journals(job, f) \/ Touches(Op(job), f)
    BY <1>1, <1>3, NotedJournals
  <1> HIDE DEF new
  <1>6. /\ Transactional(new) /\ Op(new) = Op(job)
        /\ \A f : Names(new, f) <=> Names(job, f)
    BY <1>3, <1>4 DEF Transactional, Op, Names
  <1>7. JournalOf(new)
    <2>1. \A f \in Files : Touches(Op(job), f) => Names(job, f)
      BY <1>3, TouchesNames
    <2> QED BY <1>5, <1>6, <2>1 DEF JournalOf
  <1>8. ASSUME ~unseen', NEW f \in Files, NEW r \in Dirs, Tracks(files, job, f, r)
        PROVE  Tracks(files', new, f, r)
    <2>1. /\ job.before[f] = r[f] /\ (~Names(job, f) => files[f] = r[f])
          /\ files[f] = FoldLeft(Put, r, job.changes)[f] /\ Restorable(files, job, f)
      BY <1>3, <1>8 DEF Tracks
    <2>2. as = Seen(Op(job))
      BY <1>1, <1>8
    <2>3. Restorable(files, new, f)
      BY <1>3, <2>1, <2>2, NotedRestores DEF TypeOK, new
    <2> QED BY <1>2, <1>4, <1>6, <2>1, <2>3 DEF Tracks
  <1>9. ~unseen' => ~unseen
    BY <1>1
  <1>10. Keeps(j, new)
    BY <1>2, <1>4, <1>7, <1>8, <1>9 DEF Keeps
  <1>11. Moves(j, new)
    BY <1>1 DEF new
  <1> QED BY <1>10, <1>11

LEMMA FailedKeeps ==
  ASSUME TypeOK, NEW j \in DOMAIN jobs, JournalOf(jobs[j]), jobs[j].at = "apply",
         Moves(j, Failed(jobs[j])),
         \/ UNCHANGED <<files, unseen>>
         \/ /\ Op(jobs[j]).op = "write" /\ files' = [files EXCEPT ![Op(jobs[j]).path] = Torn]
            /\ unseen' = (unseen \/ ~Transactional(jobs[j]))
  PROVE  Keeps(j, Failed(jobs[j]))
  <1> DEFINE job == jobs[j]
             new == Failed(job)
             op  == Op(job)
  <1>1. job \in Jobs /\ op \in Operations /\ files \in Dirs
    BY JobTyped DEF TypeOK
  <1>2. new = [job EXCEPT !.at = IF Transactional(job) THEN "rollback" ELSE "refused"]
    BY DEF Failed
  <1>3. /\ new.at = (IF Transactional(job) THEN "rollback" ELSE "refused")
        /\ new.before = job.before
        /\ Transactional(new) <=> Transactional(job)
        /\ \A f : Names(new, f) <=> Names(job, f)
        /\ \A f : Journals(new, f) <=> Journals(job, f)
        /\ \A fs, f : Restorable(fs, new, f) <=> Restorable(fs, job, f)
    BY <1>1, <1>2, JobElsewhere
  <1> HIDE DEF new
  <1>4. JournalOf(new) /\ new.at # "validate"
    BY <1>3 DEF JournalOf
  <1>5. \A f \in Files : ~Touches(op, f) => files'[f] = files[f]
    <2>1. op.op = "write" => \A f \in Files : ~Touches(op, f) => f # op.path
      BY <1>1, TouchesShapes
    <2> QED BY <1>1, <2>1 DEF Dirs
  <1>6. \A f \in Files : Touches(op, f) => Names(job, f)
    BY TouchesNames
  <1>7. ~unseen' => ~unseen /\ (Transactional(job) \/ files' = files)
    BY DEF TypeOK
  <1>8. ASSUME ~unseen', NEW f \in Files, NEW r \in Dirs, Tracks(files, job, f, r)
        PROVE  Tracks(files', new, f, r)
    <2>1. /\ job.before[f] = r[f] /\ (~Names(job, f) => files[f] = r[f])
          /\ (~Transactional(job) => files[f] = r[f])
          /\ (Transactional(job) => Restorable(files, job, f))
      BY <1>8 DEF Tracks
    <2>2. ~Names(job, f) => files'[f] = r[f]
      BY <1>5, <1>6, <2>1
    <2>3. CASE Transactional(job)
      <3>1. Touches(op, f) => Journals(job, f)
        BY <2>3 DEF JournalOf
      <3>2. Restorable(files', job, f)
        BY <1>5, <2>1, <2>3, <3>1 DEF Restorable
      <3> QED BY <1>3, <2>1, <2>2, <2>3, <3>2 DEF Tracks
    <2>4. CASE ~Transactional(job)
      BY <1>3, <1>7, <1>8, <2>1, <2>2, <2>4 DEF Tracks
    <2> QED BY <2>3, <2>4
  <1> QED BY <1>4, <1>5, <1>6, <1>7, <1>8 DEF Keeps, new

LEMMA AppliedKeeps ==
  ASSUME TypeOK, NEW j \in DOMAIN jobs, JournalOf(jobs[j]), jobs[j].at = "apply",
         Moves(j, Applied(jobs[j])), unseen' = unseen,
         files' = Effect(files, Op(jobs[j]))
  PROVE  Keeps(j, Applied(jobs[j]))
  <1> DEFINE job == jobs[j]
             new == Applied(job)
             op  == Op(job)
  <1>1. job \in Jobs /\ op \in Operations /\ files \in Dirs /\ Placed(new)
    BY JobTyped DEF TypeOK, Moves
  <1>2. /\ new.at = IF Finishes(job) THEN "done" ELSE "snapshot"
        /\ new.before = job.before /\ new.ops = job.ops /\ new.tool = job.tool
        /\ new.changes = job.changes \o Records(op)
        /\ ~Finishes(job) => new.journal = job.journal
        /\ Finishes(job) => new.journal = << >>
    BY <1>1 DEF Applied, Jobs
  <1> HIDE DEF new
  <1>3. /\ Transactional(new) <=> Transactional(job)
        /\ \A f : Names(new, f) <=> Names(job, f)
        /\ \A f : Journals(new, f) => Journals(job, f)
        /\ ~Finishes(job) => \A f : Journals(new, f) <=> Journals(job, f)
    BY <1>2 DEF Transactional, Names, Journals
  <1>4. JournalOf(new) /\ new.at # "validate"
    BY <1>2, <1>3 DEF JournalOf
  <1>5. \A f \in Files : ~Touches(op, f) => files'[f] = files[f]
    BY <1>1, EffectAt
  <1>6. \A f \in Files : Touches(op, f) => Names(job, f)
    BY TouchesNames
  <1>7. ASSUME ~unseen', NEW f \in Files, NEW r \in Dirs, Tracks(files, job, f, r)
        PROVE  Tracks(files', new, f, r)
    <2>1. /\ job.before[f] = r[f] /\ (~Names(job, f) => files[f] = r[f])
          /\ files[f] = FoldLeft(Put, r, job.changes)[f]
          /\ (Transactional(job) => Restorable(files, job, f))
      BY <1>7 DEF Tracks
    <2>2. ~Names(new, f) => files'[f] = r[f]
      BY <1>3, <1>5, <1>6, <2>1
    <2>3. files'[f] = FoldLeft(Put, r, new.changes)[f]
      <3>1. job.changes \in Seq(Changes)
        BY <1>1 DEF Jobs
      <3>2. FoldLeft(Put, r, job.changes \o Records(op))[f] = Effect(files, op)[f]
        BY <1>1, <2>1, <3>1, RecordsTell
      <3> QED BY <1>2, <3>2
    <2>4. ASSUME new.at = "snapshot" PROVE Restorable(files', new, f)
      <3>1. ~Finishes(job) /\ Transactional(job)
        BY <1>1, <1>2, <1>3, <2>4 DEF Placed
      <3>2. Touches(op, f) => Journals(job, f)
        BY <3>1 DEF JournalOf
      <3>3. Restorable(files', job, f)
        BY <1>5, <2>1, <3>1, <3>2 DEF Restorable
      <3> QED BY <1>2, <1>3, <3>1, <3>3 DEF Restorable
    <2>5. new.before[f] = r[f] /\ new.at \in {"done", "snapshot"}
      BY <1>2, <2>1
    <2> QED BY <2>2, <2>3, <2>4, <2>5 DEF Tracks
  <1> QED BY <1>3, <1>4, <1>5, <1>6, <1>7 DEF Keeps, new

LEMMA ApplyKeeps ==
  ASSUME TypeOK, NEW j \in DOMAIN jobs, JournalOf(jobs[j]), Apply(j)
  PROVE  \E job : Moves(j, job) /\ Keeps(j, job)
  <1>1. jobs[j].at = "apply"
    BY ApplyMoves
  <1>2. \/ /\ Moves(j, Failed(jobs[j]))
           /\ \/ UNCHANGED <<files, unseen>>
              \/ /\ Op(jobs[j]).op = "write" /\ files' = [files EXCEPT ![Op(jobs[j]).path] = Torn]
                 /\ unseen' = (unseen \/ ~Transactional(jobs[j]))
        \/ /\ Moves(j, Applied(jobs[j])) /\ unseen' = unseen
           /\ files' = Effect(files, Op(jobs[j]))
    BY ApplyMoves
  <1> QED BY <1>1, <1>2, FailedKeeps, AppliedKeeps

LEMMA UndoneKeeps ==
  ASSUME TypeOK, NEW j \in DOMAIN jobs, JournalOf(jobs[j]), jobs[j].at = "rollback",
         jobs[j].journal # << >>, Moves(j, Undone(jobs[j])),
         \/ /\ files' = [files EXCEPT ![Last(jobs[j].journal)[1]] = Last(jobs[j].journal)[2]]
            /\ unseen' = unseen
         \/ unseen' = TRUE /\ UNCHANGED files
  PROVE  Keeps(j, Undone(jobs[j]))
  <1> DEFINE job == jobs[j]
             new == Undone(job)
             fs  == [files EXCEPT ![Last(job.journal)[1]] = Last(job.journal)[2]]
  <1>1. job \in Jobs /\ files \in Dirs /\ Transactional(job)
    BY JobTyped DEF TypeOK, Placed
  <1>2. /\ new.at = "rollback" /\ new.before = job.before /\ new.ops = job.ops
        /\ new.tool = job.tool
    BY <1>1 DEF Undone, Jobs
  <1>3. \A f \in Files : Restorable(files, job, f) => Restorable(fs, new, f)
    BY <1>1, UndoneRestores
  <1>4. \A f \in Files : /\ Journals(new, f) => Journals(job, f)
                         /\ ~Journals(job, f) => fs[f] = files[f]
    BY <1>1, UndoneJournals
  <1>5. (files' = files /\ unseen' = TRUE) \/ (files' = fs /\ unseen' = unseen)
    OBVIOUS
  <1> HIDE DEF new, fs
  <1>6. /\ Transactional(new)
        /\ \A f : Names(new, f) <=> Names(job, f)
    BY <1>1, <1>2 DEF Transactional, Names
  <1>7. \A f \in Files : Journals(job, f) => Names(job, f)
    BY DEF JournalOf
  <1>8. JournalOf(new)
    BY <1>2, <1>4, <1>6, <1>7 DEF JournalOf
  <1>9. \A f \in Files : ~Names(job, f) => files'[f] = files[f]
    BY <1>4, <1>5, <1>7
  <1>10. ASSUME ~unseen', NEW f \in Files, NEW r \in Dirs, Tracks(files, job, f, r)
         PROVE  Tracks(files', new, f, r)
    <2>1. /\ job.before[f] = r[f] /\ (~Names(job, f) => files[f] = r[f])
          /\ Restorable(files, job, f)
      BY <1>1, <1>10 DEF Tracks
    <2>2. Restorable(files', new, f)
      BY <1>3, <1>5, <1>10, <2>1
    <2> QED BY <1>2, <1>6, <1>9, <2>1, <2>2 DEF Tracks
  <1> QED BY <1>2, <1>5, <1>8, <1>9, <1>10 DEF Keeps, new, TypeOK

LEMMA RollbackKeeps ==
  ASSUME TypeOK, NEW j \in DOMAIN jobs, JournalOf(jobs[j]), Rollback(j)
  PROVE  \E job : Moves(j, job) /\ Keeps(j, job)
  <1>1. jobs[j].at = "rollback"
    BY RollbackMoves
  <1>2. CASE jobs[j].journal = << >>
    <2> DEFINE job == jobs[j]
               new == [job EXCEPT !.at = "refused"]
    <2>1. Moves(j, new) /\ UNCHANGED <<files, unseen>>
      BY <1>2, RollbackMoves
    <2>2. /\ new.at = "refused" /\ new.before = job.before
          /\ \A f : Names(new, f) <=> Names(job, f)
          /\ \A f : Journals(new, f) <=> Journals(job, f)
      BY JobTyped, JobElsewhere, SMTT(30)
    <2>3. Transactional(job) /\ \A f : ~Journals(job, f)
      BY <1>1, <1>2, JobTyped DEF Placed, Journals
    <2> HIDE DEF new
    <2>4. JournalOf(new)
      BY <2>2, <2>3 DEF JournalOf
    <2>5. ASSUME NEW f \in Files, NEW r \in Dirs, Tracks(files, job, f, r)
          PROVE  Tracks(files', new, f, r)
      <3>1. job.before[f] = r[f] /\ Restorable(files, job, f)
        BY <1>1, <2>3, <2>5 DEF Tracks
      <3>2. files'[f] = r[f]
        BY <2>1, <2>3, <3>1 DEF Restorable
      <3> QED BY <2>2, <3>1, <3>2 DEF Tracks
    <2> QED BY <2>1, <2>2, <2>4, <2>5 DEF Keeps
  <1>3. CASE jobs[j].journal # << >>
    <2>1. /\ Moves(j, Undone(jobs[j]))
          /\ \/ /\ files' = [files EXCEPT ![Last(jobs[j].journal)[1]] = Last(jobs[j].journal)[2]]
                /\ unseen' = unseen
             \/ unseen' = TRUE /\ UNCHANGED files
      BY <1>3, RollbackMoves
    <2> QED BY <1>1, <1>3, <2>1, UndoneKeeps
  <1> QED BY <1>2, <1>3

\* A step of an executor, with what it keeps.
LEMMA RunKeeps ==
  ASSUME TypeOK, NEW j \in DOMAIN jobs, JournalOf(jobs[j]), Run(j)
  PROVE  /\ \E job : Moves(j, job) /\ Keeps(j, job)
         /\ jobs[j].at \notin {"done", "refused"}
         /\ walk \in {"turn", "call"} /\ UNCHANGED walkVars
  <1>1. jobs[j].at \notin {"done", "refused"}
    BY DEF Run, Read, Validate, Snapshot, Apply, Rollback
  <1> QED BY <1>1, ReadKeeps, ValidateKeeps, SnapshotKeeps, ApplyKeeps, RollbackKeeps DEF Run

LEMMA ReplayTyped == ASSUME TypeOK PROVE Began \in Dirs /\ Replay(Began) \in Dirs
  <1>1. Began \in Dirs
    <2>1. CASE jobs = << >>
      BY <2>1 DEF Began, TypeOK
    <2>2. CASE jobs # << >>
      <3>1. jobs[1] \in Jobs
        BY <2>2 DEF TypeOK
      <3> QED BY <2>2, <3>1 DEF Began, Jobs
    <2> QED BY <2>1, <2>2
  <1>2. trace \in Seq(Audits)
    BY DEF TypeOK
  <1> QED BY <1>1, <1>2, PutAllAllOf DEF Replay

LEMMA BeganKept ==
  ASSUME TypeOK, jobs' \in Seq(Jobs), Len(jobs') = Len(jobs),
         \A i \in DOMAIN jobs : jobs'[i].before = jobs[i].before,
         files' = files \/ jobs # << >>
  PROVE  Began' = Began
  <1>1. CASE jobs = << >>
    <2>1. jobs' = << >> /\ files' = files
      BY <1>1, EmptySeq
    <2> QED BY <1>1, <2>1 DEF Began
  <1>2. CASE jobs # << >>
    <2>1. jobs' # << >> /\ 1 \in DOMAIN jobs
      BY <1>2, EmptySeq, LenProperties DEF TypeOK
    <2> QED BY <1>2, <2>1 DEF Began
  <1> QED BY <1>1, <1>2

LEMMA ReplayKept ==
  ASSUME trace' = trace, Began' = Began
  PROVE  Replay(Began)' = Replay(Began)
  BY Zenon DEF Replay

LEMMA AuditReplays ==
  ASSUME TypeOK, NEW tool \in CallTools, NEW changes \in Seq(Changes),
         NEW decision \in {"denied", "authorized", "error", "timeout"},
         Audited(tool, decision, changes), Began' = Began
  PROVE  Replay(Began)' = FoldLeft(Put, Replay(Began), changes)
  <1> DEFINE audit == [tool |-> tool, decision |-> decision, changes |-> changes]
  <1>1. audit \in Audits /\ trace \in Seq(Audits) /\ Began \in Dirs
    BY ReplayTyped DEF Audits, TypeOK
  <1>2. trace' = Append(trace, audit)
    BY DEF Audited
  <1>3. Replay(Began)' = FoldLeft(PutAll, Began, Append(trace, audit))
    BY <1>2, Zenon DEF Replay
  <1>4. FoldLeft(PutAll, Began, Append(trace, audit)) = PutAll(FoldLeft(PutAll, Began, trace), audit)
    <2> HIDE DEF audit
    <2> QED BY <1>1, PutAllAllOf
  <1>5. PutAll(Replay(Began), audit) = FoldLeft(Put, Replay(Began), changes)
    BY Zenon DEF PutAll
  <1> QED BY <1>3, <1>4, <1>5, Zenon DEF Replay

LEMMA StrayedKept ==
  ASSUME DOMAIN jobs \subseteq DOMAIN jobs', NEW f,
         \A i \in DOMAIN jobs : jobs'[i].ops = jobs[i].ops /\ (jobs[i].left => jobs'[i].left)
  PROVE  Strayed(f) => Strayed(f)'
  BY DEF Strayed, Names

\* What a job that alone writes f has made of it is a matter of f alone.
LEMMA TracksThere ==
  ASSUME NEW fs, NEW gs, NEW job, NEW f, NEW r, gs[f] = fs[f], Tracks(fs, job, f, r)
  PROVE  Tracks(gs, job, f, r)
  BY DEF Tracks, Restorable

LEMMA SettledNext ==
  ASSUME \A i \in DOMAIN jobs' : JournalOf(jobs'[i]),
         \A i \in DOMAIN jobs' : \/ jobs'[i].left \/ jobs'[i].at \in {"done", "refused"}
                                \/ (walk' = "call" /\ i = Len(jobs')),
         walk' = "call" => ~jobs'[Len(jobs')].left
  PROVE  Settled'
  <1>1. (\A j \in DOMAIN jobs : JournalOf(jobs[j]))'
    BY Zenon DEF JournalOf, Journals, Names, Touches, Transactional, Op
  <1> QED BY <1>1 DEF Settled

LEMMA FilesInit == Init => FilesInv
  <1> SUFFICES ASSUME Init PROVE FilesInv
    OBVIOUS
  <1>1. jobs = << >> /\ trace = << >> /\ walk = "turn" /\ TypeOK
    BY TypeInit DEF Init
  <1>2. Settled
    BY <1>1 DEF Settled
  <1>3. Replay(Began) = files
    <2>1. files \in Dirs /\ Began = files /\ << >> \in Seq(Audits)
      BY <1>1 DEF TypeOK, Began
    <2> QED BY <1>1, <2>1, PutAllAllOf DEF Replay
  <1> QED BY <1>1, <1>2, <1>3 DEF FilesInv, Explained

LEMMA FilesExecute ==
  ASSUME FilesInv, NEW call \in Calls, Execute(call)
  PROVE  Settled' /\ (~unseen' => \A f \in Files : ~Strayed(f)' => Explained(f)')
  <1> DEFINE n == Len(jobs)
             new == Started(call)
  <1>1. /\ TypeOK /\ Len(jobs') = n + 1 /\ DOMAIN jobs' = 1 .. n + 1 /\ jobs'[n + 1] = new
        /\ \A i \in DOMAIN jobs : i \in DOMAIN jobs' /\ jobs'[i] = jobs[i]
        /\ walk = "turn" /\ walk' = "call" /\ n \in Nat /\ DOMAIN jobs = 1 .. n
        /\ UNCHANGED <<files, trace, unseen>>
    BY ExecuteStarts, LenProperties DEF FilesInv, TypeOK, Execute
  <1>2. /\ new.at = "validate" /\ new.left = FALSE /\ new.before = files /\ new.journal = << >>
    BY DEF Started
  <1> HIDE DEF new
  <1>3. JournalOf(new)
    BY <1>2 DEF JournalOf, Journals
  <1>4. Settled'
    <2>1. \A i \in DOMAIN jobs' : i \in DOMAIN jobs \/ i = n + 1
      BY <1>1
    <2>2. \A i \in DOMAIN jobs : jobs[i].left \/ jobs[i].at \in {"done", "refused"}
      BY <1>1 DEF FilesInv, Settled
    <2>3. \A i \in DOMAIN jobs : JournalOf(jobs[i])
      BY DEF FilesInv, Settled
    <2>4. \A i \in DOMAIN jobs' : JournalOf(jobs'[i])
      BY <1>1, <1>3, <2>1, <2>3
    <2>5. \A i \in DOMAIN jobs' : jobs'[i].left \/ jobs'[i].at \in {"done", "refused"} \/ i = n + 1
      BY <1>1, <2>1, <2>2
    <2> QED BY <1>1, <1>2, <2>4, <2>5, SettledNext
  <1>5. Began' = Began
    <2>1. CASE jobs = << >>
      <3>1. jobs'[1] = new /\ jobs' # << >>
        BY <1>1, <2>1
      <3> QED BY <1>2, <2>1, <3>1 DEF Began
    <2>2. CASE jobs # << >>
      <3>1. 1 \in DOMAIN jobs /\ jobs' # << >>
        BY <1>1, <2>2, EmptySeq DEF TypeOK
      <3> QED BY <1>1, <2>2, <3>1 DEF Began
    <2> QED BY <2>1, <2>2
  <1>6. Replay(Began)' = Replay(Began)
    BY <1>1, <1>5, ReplayKept
  <1>7. ASSUME ~unseen', NEW f \in Files, ~Strayed(f)' PROVE Explained(f)'
    <2>1. ~Strayed(f)
      BY <1>1, <1>7, StrayedKept
    <2>2. files[f] = Replay(Began)[f]
      BY <1>1, <1>7, <2>1 DEF FilesInv, Explained
    <2>3. Tracks(files, new, f, Replay(Began))
      BY <1>2, <2>2 DEF Tracks
    <2> QED BY <1>1, <1>6, <2>3 DEF Explained
  <1> QED BY <1>4, <1>7

LEMMA FilesAnswer ==
  ASSUME FilesInv, Answer
  PROVE  Settled' /\ (~unseen' => \A f \in Files : ~Strayed(f)' => Explained(f)')
  <1> DEFINE job == jobs[Len(jobs)]
  <1>1. /\ TypeOK /\ Settled /\ walk = "call" /\ UNCHANGED <<files, jobs, unseen>>
        /\ job \in Jobs /\ job.at \in {"done", "refused"}
    BY AnswerAudits DEF FilesInv
  <1>2. \/ job.at = "done" /\ Audited(job.tool, "authorized", job.changes)
        \/ job.at = "refused" /\ Audited(job.tool, "error", << >>)
    BY <1>1, AnswerAudits
  <1>3. walk' = "turn"
    BY <1>2 DEF Audited
  <1>4. Settled'
    <2>1. \A j \in DOMAIN jobs : jobs[j].left \/ jobs[j].at \in {"done", "refused"}
      BY <1>1 DEF Settled
    <2>2. \A j \in DOMAIN jobs : JournalOf(jobs[j])
      BY <1>1 DEF Settled
    <2> QED BY <1>1, <1>3, <2>1, <2>2, SettledNext
  <1>5. Began' = Began /\ << >> \in Seq(Changes) /\ job.changes \in Seq(Changes)
        /\ job.tool \in CallTools /\ Replay(Began) \in Dirs
    BY <1>1, ReplayTyped DEF Began, Jobs
  <1>6. \/ job.at = "done" /\ Replay(Began)' = FoldLeft(Put, Replay(Began), job.changes)
        \/ job.at = "refused" /\ Replay(Began)' = Replay(Began)
    <2>1. CASE job.at = "done" /\ Audited(job.tool, "authorized", job.changes)
      BY <1>1, <1>5, <2>1, AuditReplays
    <2>2. CASE job.at = "refused" /\ Audited(job.tool, "error", << >>)
      <3>1. Replay(Began)' = FoldLeft(Put, Replay(Began), << >>)
        BY <1>1, <1>5, <2>2, AuditReplays
      <3> QED BY <1>5, <2>2, <3>1, NothingPut
    <2> QED BY <1>2, <2>1, <2>2
  <1>7. ASSUME ~unseen', NEW f \in Files, ~Strayed(f)' PROVE Explained(f)'
    <2>1. ~Strayed(f)
      BY <1>1, <1>7, StrayedKept
    <2>2. Tracks(files, job, f, Replay(Began))
      BY <1>1, <1>7, <2>1 DEF FilesInv, Explained
    <2>3. files[f] = Replay(Began)'[f]
      BY <1>6, <2>2 DEF Tracks
    <2> QED BY <1>1, <1>3, <2>3 DEF Explained
  <1> QED BY <1>4, <1>7

LEMMA FilesTimeout ==
  ASSUME FilesInv, Timeout
  PROVE  Settled' /\ (~unseen' => \A f \in Files : ~Strayed(f)' => Explained(f)')
  <1> DEFINE n   == Len(jobs)
             job == jobs[n]
             new == LeftAlone(job)
  <1>1. /\ TypeOK /\ Settled /\ n \in DOMAIN jobs /\ walk = "call" /\ UNCHANGED <<files, unseen>>
        /\ job \in Jobs /\ Audited(job.tool, "timeout", << >>)
        /\ jobs' \in Seq(Jobs) /\ Len(jobs') = n /\ DOMAIN jobs' = DOMAIN jobs
        /\ jobs'[n] = new /\ \A i \in DOMAIN jobs : i # n => jobs'[i] = jobs[i]
        /\ \A i \in DOMAIN jobs : jobs'[i].ops = jobs[i].ops /\ jobs'[i].before = jobs[i].before
    BY TimeoutLeaves DEF FilesInv
  <1>2. /\ new.left = TRUE /\ new.at = job.at /\ new.ops = job.ops /\ new.journal = job.journal
        /\ new.next = job.next /\ new.tool = job.tool
    BY <1>1 DEF LeftAlone, Jobs
  <1> HIDE DEF new
  <1>3. walk' = "turn"
    BY <1>1 DEF Audited
  <1>4. JournalOf(new)
    <2>1. JournalOf(job)
      BY <1>1 DEF Settled
    <2> QED BY <1>2, <2>1 DEF JournalOf, Journals, Names, Transactional, Op
  <1>5. Settled'
    <2>1. \A i \in DOMAIN jobs : i # n => jobs[i].left \/ jobs[i].at \in {"done", "refused"}
      BY <1>1 DEF Settled
    <2>2. \A i \in DOMAIN jobs : jobs'[i].left \/ jobs'[i].at \in {"done", "refused"}
      BY <1>1, <1>2, <2>1
    <2>3. \A i \in DOMAIN jobs : JournalOf(jobs'[i])
      BY <1>1, <1>4 DEF Settled
    <2> QED BY <1>1, <1>3, <2>2, <2>3, SettledNext
  <1>6. Began' = Began
    BY <1>1, BeganKept
  <1>7. Replay(Began)' = Replay(Began)
    <2>1. << >> \in Seq(Changes) /\ job.tool \in CallTools /\ Replay(Began) \in Dirs
      BY <1>1, ReplayTyped DEF Jobs
    <2>2. Replay(Began)' = FoldLeft(Put, Replay(Began), << >>)
      BY <1>1, <1>6, <2>1, AuditReplays
    <2> QED BY <2>1, <2>2, NothingPut
  <1>8. ASSUME ~unseen', NEW f \in Files, ~Strayed(f)' PROVE Explained(f)'
    <2>1. ~Names(job, f)
      BY <1>1, <1>2, <1>8 DEF Strayed, Names
    <2>2. \A i \in DOMAIN jobs : jobs[i].left => jobs'[i].left
      BY <1>1, <1>2
    <2>3. ~Strayed(f)
      BY <1>1, <1>8, <2>2, StrayedKept
    <2>4. Tracks(files, job, f, Replay(Began))
      BY <1>1, <1>8, <2>3 DEF FilesInv, Explained
    <2>5. files[f] = Replay(Began)[f]
      BY <2>1, <2>4 DEF Tracks
    <2> QED BY <1>1, <1>3, <1>7, <2>5 DEF Explained
  <1> QED BY <1>5, <1>8

LEMMA FilesRun ==
  ASSUME FilesInv, NEW j \in DOMAIN jobs, Run(j)
  PROVE  Settled' /\ (~unseen' => \A f \in Files : ~Strayed(f)' => Explained(f)')
  <1>1. TypeOK /\ Settled /\ JournalOf(jobs[j])
    BY DEF FilesInv, Settled
  <1>2. PICK job : Moves(j, job) /\ Keeps(j, job)
    BY <1>1, RunKeeps
  <1>3. /\ jobs[j].at \notin {"done", "refused"}
        /\ walk \in {"turn", "call"} /\ UNCHANGED walkVars
    BY <1>1, RunKeeps
  <1>4. /\ jobs' \in Seq(Jobs) /\ Len(jobs') = Len(jobs) /\ DOMAIN jobs' = DOMAIN jobs
        /\ jobs'[j] = job /\ \A i \in DOMAIN jobs : i # j => jobs'[i] = jobs[i]
        /\ \A i \in DOMAIN jobs : /\ jobs'[i].ops = jobs[i].ops
                                  /\ jobs'[i].left = jobs[i].left
                                  /\ jobs'[i].before = jobs[i].before
    BY <1>1, <1>2, MovesKeeps
  <1>5. walk' = walk /\ trace' = trace /\ artifact' = artifact
    BY <1>3 DEF walkVars
  <1>6. jobs[j].left \/ (walk = "call" /\ j = Len(jobs))
    BY <1>1, <1>3 DEF Settled
  <1>7. Settled'
    <2>1. \A i \in DOMAIN jobs : \/ jobs'[i].left \/ jobs'[i].at \in {"done", "refused"}
                                 \/ (walk = "call" /\ i = Len(jobs))
      <3> TAKE i \in DOMAIN jobs
      <3>1. CASE i = j
        BY <1>4, <1>6, <3>1
      <3>2. CASE i # j
        BY <1>1, <1>4, <3>2 DEF Settled
      <3> QED BY <3>1, <3>2
    <2>2. \A i \in DOMAIN jobs : JournalOf(jobs'[i])
      BY <1>1, <1>2, <1>4 DEF Settled, Keeps
    <2>3. walk = "call" => ~jobs'[Len(jobs)].left
      <3>1. walk = "call" => Len(jobs) \in DOMAIN jobs
        BY <1>1, LastJob
      <3> QED BY <1>1, <1>4, <3>1 DEF Settled
    <2> QED BY <1>4, <1>5, <2>1, <2>2, <2>3, SettledNext
  <1>8. Replay(Began)' = Replay(Began) /\ Replay(Began) \in Dirs
    <2>1. jobs # << >>
      BY <1>1, LenProperties
    <2>2. Began' = Began
      BY <1>1, <1>4, <2>1, BeganKept
    <2> QED BY <1>1, <1>5, <2>2, ReplayKept, ReplayTyped
  <1>9. ASSUME ~unseen', NEW f \in Files, ~Strayed(f)' PROVE Explained(f)'
    <2>1. ~Strayed(f)
      BY <1>4, <1>9, StrayedKept
    <2>2. ~unseen
      BY <1>2, <1>9 DEF Keeps
    <2>3. Explained(f)
      BY <2>1, <2>2 DEF FilesInv
    <2>4. CASE jobs[j].left
      <3>1. files'[f] = files[f]
        BY <1>2, <2>1, <2>4 DEF Strayed, Keeps
      <3>2. CASE walk = "turn"
        BY <1>5, <1>8, <2>3, <3>1, <3>2 DEF Explained
      <3>3. CASE walk = "call"
        <4>1. Len(jobs) # j /\ Len(jobs) \in DOMAIN jobs
          BY <1>1, <2>4, <3>3, LastJob DEF Settled
        <4>2. jobs'[Len(jobs')] = jobs[Len(jobs)]
          BY <1>4, <4>1
        <4>3. Tracks(files', jobs[Len(jobs)], f, Replay(Began))
          BY <2>3, <3>1, <3>3, TracksThere DEF Explained
        <4> QED BY <1>5, <1>8, <3>3, <4>2, <4>3 DEF Explained
      <3> QED BY <1>3, <3>2, <3>3
    <2>5. CASE walk = "call" /\ j = Len(jobs)
      <3>1. Tracks(files, jobs[j], f, Replay(Began))
        BY <2>3, <2>5 DEF Explained
      <3>2. Tracks(files', job, f, Replay(Began))
        BY <1>2, <1>8, <1>9, <3>1 DEF Keeps
      <3>3. jobs'[Len(jobs')] = job
        BY <1>4, <2>5
      <3> QED BY <1>5, <1>8, <2>5, <3>2, <3>3 DEF Explained
    <2> QED BY <1>6, <2>4, <2>5
  <1> QED BY <1>7, <1>9

\* Nothing but the walk moves, and what the artifact is.
LEMMA FilesSame ==
  ASSUME FilesInv, UNCHANGED <<files, jobs, trace, unseen>>,
         \/ UNCHANGED <<walk, artifact>>
         \/ walk = "turn" /\ walk' = "ended" /\ artifact' = files
         \/ walk = "call" /\ walk' = "failed" /\ jobs[Len(jobs)].at \in {"done", "refused"}
  PROVE  Settled' /\ (~unseen' => \A f \in Files : ~Strayed(f)' => Explained(f)')
  <1>1. TypeOK /\ Settled
    BY DEF FilesInv
  <1>2. Settled'
    <2>1. \A j \in DOMAIN jobs : JournalOf(jobs[j])
      BY <1>1 DEF Settled
    <2>2. \A j \in DOMAIN jobs : \/ jobs[j].left \/ jobs[j].at \in {"done", "refused"}
                                 \/ (walk' = "call" /\ j = Len(jobs))
      BY <1>1 DEF Settled
    <2>3. walk' = "call" => ~jobs[Len(jobs)].left
      BY <1>1 DEF Settled
    <2> QED BY <2>1, <2>2, <2>3, SettledNext
  <1>3. Began' = Began
    BY DEF Began
  <1>4. Replay(Began)' = Replay(Began)
    BY <1>3, ReplayKept
  <1>5. ASSUME ~unseen', NEW f \in Files, ~Strayed(f)' PROVE Explained(f)'
    <2>1. ~Strayed(f)
      BY <1>5, StrayedKept
    <2>2. Explained(f)
      BY <1>5, <2>1 DEF FilesInv
    <2>3. CASE UNCHANGED <<walk, artifact>>
      <3>1. walk = "call" => Tracks(files', jobs'[Len(jobs')], f, Replay(Began)')
        BY <1>4, <2>2 DEF Explained
      <3> QED BY <1>4, <2>2, <2>3, <3>1 DEF Explained
    <2>4. CASE walk = "turn" /\ walk' = "ended" /\ artifact' = files
      BY <1>4, <2>2, <2>4 DEF Explained
    <2>5. CASE walk = "call" /\ walk' = "failed"
      BY <2>5 DEF Explained
    <2> QED BY <2>3, <2>4, <2>5
  <1> QED BY <1>2, <1>5

LEMMA FilesRefuse ==
  ASSUME FilesInv, NEW call \in Calls, Refuse(call)
  PROVE  Settled' /\ (~unseen' => \A f \in Files : ~Strayed(f)' => Explained(f)')
  <1>1. /\ TypeOK /\ Settled /\ walk = "turn" /\ Audited(call.tool, "denied", << >>)
        /\ UNCHANGED <<files, jobs, unseen>>
    BY DEF FilesInv, Refuse
  <1>2. walk' = "turn" /\ UNCHANGED artifact
    BY <1>1 DEF Audited
  <1>3. Settled'
    <2>1. \A j \in DOMAIN jobs : JournalOf(jobs[j])
      BY <1>1 DEF Settled
    <2>2. \A j \in DOMAIN jobs : jobs[j].left \/ jobs[j].at \in {"done", "refused"}
      BY <1>1 DEF Settled
    <2> QED BY <1>1, <1>2, <2>1, <2>2, SettledNext
  <1>4. Replay(Began)' = Replay(Began)
    <2>1. << >> \in Seq(Changes) /\ call.tool \in CallTools /\ Replay(Began) \in Dirs
          /\ Began' = Began
      BY <1>1, ReplayTyped DEF CallTools, Began
    <2>2. Replay(Began)' = FoldLeft(Put, Replay(Began), << >>)
      BY <1>1, <2>1, AuditReplays
    <2> QED BY <2>1, <2>2, NothingPut
  <1>5. ASSUME ~unseen', NEW f \in Files, ~Strayed(f)' PROVE Explained(f)'
    <2>1. ~Strayed(f)
      BY <1>1, <1>5, StrayedKept
    <2>2. files[f] = Replay(Began)[f]
      BY <1>1, <1>5, <2>1 DEF FilesInv, Explained
    <2> QED BY <1>1, <1>2, <1>4, <2>2 DEF Explained
  <1> QED BY <1>3, <1>5

LEMMA FilesStep == FilesInv /\ [Next]_vars => FilesInv'
  <1> SUFFICES ASSUME FilesInv, [Next]_vars PROVE FilesInv'
    OBVIOUS
  <1>1. TypeOK'
    BY TypeStep DEF FilesInv
  <1> SUFFICES Settled' /\ (~unseen' => \A f \in Files : ~Strayed(f)' => Explained(f)')
    BY <1>1 DEF FilesInv
  <1>2. CASE AuditFails
    BY <1>2, FilesSame DEF AuditFails
  <1>3. CASE EnterPhase
    BY <1>3, FilesSame DEF EnterPhase
  <1>4. CASE Collect
    BY <1>4, FilesSame DEF Collect
  <1>5. CASE UNCHANGED vars
    BY <1>5, FilesSame DEF vars
  <1> QED BY <1>2, <1>3, <1>4, <1>5, FilesRefuse, FilesExecute, FilesAnswer, FilesTimeout,
             FilesRun DEF Next

\* A path a job that was left to itself names is one of Stray.
LEMMA StrayIs == ASSUME TypeOK, NEW f \in Files, f \notin Stray PROVE ~Strayed(f)
  <1> SUFFICES ASSUME NEW j \in DOMAIN jobs, jobs[j].left, Names(jobs[j], f) PROVE FALSE
    BY DEF Strayed
  <1>1. PICK k \in DOMAIN jobs[j].ops : Touches(jobs[j].ops[k], f)
    BY DEF Names
  <1>2. jobs[j].ops[k] \in Range(jobs[j].ops)
    BY DEF Range
  <1>3. f \in Range(Touched(jobs[j].ops[k]))
    BY <1>1 DEF Touches, Range
  <1> QED BY <1>2, <1>3 DEF Stray

\* The records explain the artifact, file by file, for every workspace, list of
\* calls and number of failures: runTransaction restores what it changed, each
\* executor reports exactly what it wrote, and a job left to itself keeps to
\* the paths of its call.
THEOREM RecordsExplain == Spec => []TraceExplainsArtifact
  <1>1. FilesInv => TraceExplainsArtifact
    BY StrayIs DEF FilesInv, Explained, TraceExplainsArtifact
  <1> QED BY <1>1, FilesInit, FilesStep, PTL DEF Spec

LEMMA PrefixSeqs ==
  ASSUME NEW S, NEW s \in Seq(S), NEW k \in DOMAIN s
  PROVE  /\ SubSeq(s, 1, k - 1) \in Seq(S) /\ s[k] \in S
         /\ SubSeq(s, 1, k) = Append(SubSeq(s, 1, k - 1), s[k])
         /\ SubSeq(s, 1, 0) = << >> /\ SubSeq(s, 1, Len(s)) = s
  OBVIOUS

\* The operations of a job that were done, in their order.
DoneSoFar(fs, job) ==
    /\ job.at \in {"snapshot", "apply"} =>
         fs = FoldLeft(Effect, job.before, SubSeq(job.ops, 1, job.next - 1))
    /\ job.at = "done" => fs = FoldLeft(Effect, job.before, job.ops)

LEMMA EffectInvIs ==
  EffectInv <=> (walk = "call" /\ Quiet => DoneSoFar(files, jobs[Len(jobs)]))
  BY Zenon DEF EffectInv, DoneSoFar

\* When nothing else writes, nothing has happened before the first operation
\* nor after a rollback.
LEMMA AloneAsBefore ==
  ASSUME FilesInv, Quiet, walk = "call", jobs[Len(jobs)].at \in {"validate", "refused"}
  PROVE  files = jobs[Len(jobs)].before
  <1> DEFINE job == jobs[Len(jobs)]
  <1>1. TypeOK /\ job \in Jobs /\ files \in Dirs /\ job.before \in Dirs
    <2>1. TypeOK
      BY DEF FilesInv
    <2>2. job \in Jobs
      BY <2>1, LastJob, JobTyped
    <2> QED BY <2>1, <2>2 DEF TypeOK, Jobs
  <1>2. \A f \in Files : files[f] = job.before[f]
    <2> TAKE f \in Files
    <2>1. ~Strayed(f)
      BY DEF Quiet, Strayed
    <2>2. Tracks(files, job, f, Replay(Began))
      BY <2>1 DEF FilesInv, Explained, Quiet
    <2> QED BY <2>2 DEF Tracks
  <1> QED BY <1>1, <1>2 DEF Dirs

LEMMA EffectRun ==
  ASSUME FilesInv, EffectInv, NEW j \in DOMAIN jobs, Run(j), walk' = "call", Quiet'
  PROVE  DoneSoFar(files', jobs'[Len(jobs)])
  <1> DEFINE job == jobs[j]
             op  == Op(job)
  <1>1. /\ TypeOK /\ Settled /\ job \in Jobs /\ Placed(job)
        /\ job.at \in {"snapshot", "apply"} => op \in Operations
    <2>1. TypeOK /\ Settled
      BY DEF FilesInv
    <2> QED BY <2>1, JobTyped
  <1>2. walk = "call"
    BY DEF Run, walkVars
  <1>3. PICK any : Moves(j, any) /\ Keeps(j, any)
    BY <1>1, RunKeeps DEF Settled
  <1>4. /\ Len(jobs') = Len(jobs) /\ DOMAIN jobs' = DOMAIN jobs
        /\ \A i \in DOMAIN jobs : jobs'[i].left = jobs[i].left
    BY <1>1, <1>3, MovesKeeps
  <1>5. Quiet
    BY <1>3, <1>4 DEF Quiet, Keeps
  <1>6. j = Len(jobs)
    BY <1>1, <1>5, RunKeeps DEF Settled, Quiet
  <1>7. ASSUME NEW new, Moves(j, new) PROVE jobs'[Len(jobs)] = new
    BY <1>1, <1>6, <1>7, MovesKeeps
  <1>8. /\ job.ops \in Seq(Operations) /\ job.before \in Dirs
        /\ << >> \in Seq(Operations)
        /\ FoldLeft(Effect, job.before, << >>) = job.before
    <2>1. job.ops \in Seq(Operations) /\ job.before \in Dirs /\ << >> \in Seq(Operations)
      BY <1>1 DEF Jobs
    <2> QED BY <2>1, EffectAllOf
  <1>9. CASE Read(j)
    <2>1. PICK where \in {"done", "refused"} : Moves(j, [job EXCEPT !.at = where])
      BY <1>1, <1>9, ReadMoves
    <2>2. files' = files /\ job.ops = << >> /\ job.at = "validate"
      BY <1>9 DEF Read
    <2>3. files = job.before
      BY <1>2, <1>5, <1>6, <2>2, AloneAsBefore
    <2> DEFINE new == [job EXCEPT !.at = where]
    <2>4. new.at = where /\ new.ops = job.ops /\ new.before = job.before
      BY <1>1, JobElsewhere
    <2>5. jobs'[Len(jobs)] = new
      BY <1>7, <2>1
    <2> HIDE DEF new
    <2> QED BY <1>8, <2>2, <2>3, <2>4, <2>5 DEF DoneSoFar
  <1>10. CASE Validate(j)
    <2>1. PICK where \in {"snapshot", "apply", "refused"} : Moves(j, [job EXCEPT !.at = where])
      BY <1>1, <1>10, ValidateMoves
    <2>2. files' = files /\ job.ops # << >> /\ job.at = "validate" /\ job.next = 1
      BY <1>1, <1>10 DEF Validate, Placed
    <2>3. files = job.before
      BY <1>2, <1>5, <1>6, <2>2, AloneAsBefore
    <2> DEFINE new == [job EXCEPT !.at = where]
    <2>4. new.at = where /\ new.ops = job.ops /\ new.before = job.before /\ new.next = job.next
      BY <1>1, JobElsewhere
    <2>5. jobs'[Len(jobs)] = new
      BY <1>7, <2>1
    <2>6. SubSeq(job.ops, 1, job.next - 1) = << >>
      <3>1. 1 \in DOMAIN job.ops
        BY <1>8, <2>2
      <3> QED BY <1>8, <2>2, <3>1, PrefixSeqs
    <2> HIDE DEF new
    <2> QED BY <1>8, <2>2, <2>3, <2>4, <2>5, <2>6 DEF DoneSoFar
  <1>11. CASE Snapshot(j)
    <2>1. PICK as : Moves(j, Noted(job, as))
      BY <1>1, <1>11, SnapshotMoves
    <2>2. files' = files /\ job.at = "snapshot"
      BY <1>11 DEF Snapshot
    <2> DEFINE new == Noted(job, as)
    <2>3. new.at = "apply" /\ new.ops = job.ops /\ new.before = job.before /\ new.next = job.next
      BY <1>1 DEF Noted, Jobs
    <2>4. jobs'[Len(jobs)] = new
      BY <1>7, <2>1
    <2>5. DoneSoFar(files, job)
      BY <1>2, <1>5, <1>6, EffectInvIs
    <2> HIDE DEF new
    <2> QED BY <2>2, <2>3, <2>4, <2>5 DEF DoneSoFar
  <1>12. CASE Apply(j)
    <2>1. job.at = "apply" /\ job.next \in DOMAIN job.ops /\ op = job.ops[job.next]
      BY <1>1, <1>12, ApplyMoves DEF Placed, Op
    <2>2. CASE Moves(j, Failed(job))
      <3>1. Failed(job).at \in {"rollback", "refused"}
        BY <1>1, JobElsewhere DEF Failed
      <3>2. jobs'[Len(jobs)] = Failed(job)
        BY <1>7, <2>2
      <3> QED BY <3>1, <3>2 DEF DoneSoFar
    <2>3. CASE Moves(j, Applied(job)) /\ files' = Effect(files, op)
      <3> DEFINE new == Applied(job)
                 k   == job.next
      <3>1. /\ new.at = IF Finishes(job) THEN "done" ELSE "snapshot"
            /\ new.ops = job.ops /\ new.before = job.before
            /\ ~Finishes(job) => new.next = job.next + 1
        BY <1>1 DEF Applied, Jobs
      <3>2. jobs'[Len(jobs)] = new
        BY <1>7, <2>3
      <3>3. files = FoldLeft(Effect, job.before, SubSeq(job.ops, 1, k - 1))
        <4>1. DoneSoFar(files, job)
          BY <1>2, <1>5, <1>6, EffectInvIs
        <4> QED BY <2>1, <4>1 DEF DoneSoFar
      <3>4. /\ SubSeq(job.ops, 1, k - 1) \in Seq(Operations) /\ job.ops[k] \in Operations
            /\ SubSeq(job.ops, 1, k) = Append(SubSeq(job.ops, 1, k - 1), job.ops[k])
            /\ SubSeq(job.ops, 1, Len(job.ops)) = job.ops
        BY <1>8, <2>1, PrefixSeqs
      <3>5. files' = FoldLeft(Effect, job.before, SubSeq(job.ops, 1, k))
        <4> DEFINE s == SubSeq(job.ops, 1, k - 1)
        <4>1. s \in Seq(Operations) /\ op \in Operations
          BY <1>1, <2>1, <3>4
        <4> HIDE DEF s
        <4>2. FoldLeft(Effect, job.before, Append(s, op)) = Effect(FoldLeft(Effect, job.before, s), op)
          BY <1>8, <4>1, EffectAllOf
        <4>3. SubSeq(job.ops, 1, k) = Append(s, op) /\ files = FoldLeft(Effect, job.before, s)
          BY <2>1, <3>3, <3>4 DEF s
        <4> QED BY <2>3, <4>2, <4>3, Zenon
      <3>6. Finishes(job) => files' = FoldLeft(Effect, job.before, job.ops)
        BY <3>4, <3>5 DEF Finishes
      <3>7. (k + 1) - 1 = k
        BY <1>1 DEF Jobs
      <3> HIDE DEF new
      <3>8. CASE Finishes(job)
        BY <3>1, <3>2, <3>6, <3>8 DEF DoneSoFar
      <3>9. CASE ~Finishes(job)
        BY <3>1, <3>2, <3>5, <3>7, <3>9 DEF DoneSoFar
      <3> QED BY <3>8, <3>9
    <2> QED BY <1>1, <1>12, <2>2, <2>3, ApplyMoves
  <1>13. CASE Rollback(j)
    <2>1. CASE Moves(j, [job EXCEPT !.at = "refused"])
      <3>1. [job EXCEPT !.at = "refused"].at = "refused"
        BY <1>1, JobElsewhere
      <3>2. jobs'[Len(jobs)] = [job EXCEPT !.at = "refused"]
        BY <1>7, <2>1
      <3> QED BY <3>1, <3>2 DEF DoneSoFar
    <2>2. CASE Moves(j, Undone(job))
      <3>1. Undone(job).at = "rollback"
        BY <1>1, <1>13 DEF Undone, Rollback, Jobs
      <3>2. jobs'[Len(jobs)] = Undone(job)
        BY <1>7, <2>2
      <3> QED BY <3>1, <3>2 DEF DoneSoFar
    <2> QED BY <1>1, <1>13, <2>1, <2>2, RollbackMoves
  <1> QED BY <1>9, <1>10, <1>11, <1>12, <1>13 DEF Run

LEMMA EffectStep == FilesInv /\ EffectInv /\ [Next]_vars => EffectInv'
  <1> SUFFICES ASSUME FilesInv, EffectInv, [Next]_vars, walk' = "call", Quiet'
               PROVE  DoneSoFar(files', jobs'[Len(jobs')])
    BY Zenon DEF EffectInv, DoneSoFar
  <1>1. TypeOK
    BY DEF FilesInv
  <1>2. ASSUME NEW call \in Calls, Execute(call) PROVE DoneSoFar(files', jobs'[Len(jobs')])
    <2>1. jobs'[Len(jobs')] = Started(call)
      BY <1>1, <1>2, ExecuteStarts
    <2>2. Started(call).at = "validate"
      BY DEF Started
    <2> QED BY <2>1, <2>2 DEF DoneSoFar
  <1>3. ASSUME NEW j \in DOMAIN jobs, Run(j) PROVE DoneSoFar(files', jobs'[Len(jobs')])
    <2>1. Len(jobs') = Len(jobs)
      BY <1>1, <1>3, RunTyped, MovesKeeps
    <2> QED BY <1>3, <2>1, EffectRun
  <1>4. CASE UNCHANGED vars
    <2>1. walk = "call" /\ Quiet
      BY <1>4 DEF vars, Quiet
    <2> QED BY <1>4, <2>1, EffectInvIs DEF vars
  <1>5. \A tool, decision, changes : ~Audited(tool, decision, changes)
    BY DEF Audited
  <1>6. /\ \A call \in Calls : ~Refuse(call)
        /\ ~Answer /\ ~Timeout /\ ~AuditFails /\ ~EnterPhase /\ ~Collect
    BY <1>5 DEF Refuse, Answer, Timeout, AuditFails, EnterPhase, Collect
  <1> QED BY <1>2, <1>3, <1>4, <1>6 DEF Next

\* A patch is a transaction while nothing else writes, whatever its operations:
\* execApplyPatch undoes what it did when one of them fails, its refusal has
\* changed nothing, and its success is the effect of all of them in order.
THEOREM PatchesAreTransactions == Spec => []PatchAllOrNothing
  <1>1. Init => FilesInv /\ EffectInv
    <2>1. Init => walk = "turn"
      BY DEF Init
    <2> QED BY <2>1, FilesInit DEF EffectInv
  <1>2. FilesInv /\ EffectInv => PatchAllOrNothing
    <2> SUFFICES ASSUME FilesInv, EffectInv, walk = "call", Quiet
                 PROVE  /\ jobs[Len(jobs)].at = "refused" => files = jobs[Len(jobs)].before
                        /\ jobs[Len(jobs)].at = "done" =>
                             files = FoldLeft(Effect, jobs[Len(jobs)].before, jobs[Len(jobs)].ops)
      BY Zenon DEF PatchAllOrNothing
    <2>1. DoneSoFar(files, jobs[Len(jobs)])
      BY EffectInvIs
    <2> QED BY <2>1, AloneAsBefore DEF DoneSoFar
  <1>3. FilesInv /\ EffectInv /\ [Next]_vars => FilesInv' /\ EffectInv'
    BY FilesStep, EffectStep
  <1> QED BY <1>1, <1>2, <1>3, PTL DEF Spec

=============================================================================
