----------------------------- MODULE JsonlProofs -----------------------------
(***************************************************************************)
(* The session file holds what was acknowledged, for every sequence of     *)
(* transactions: proofs about Jsonl by induction over the file's writes.   *)
(***************************************************************************)
EXTENDS Jsonl, FiniteSetTheorems, TLAPS

Joined(a, b) == a \o b

A == INSTANCE LeftFold WITH Op <- Apply
C == INSTANCE LeftFold WITH Op <- Count
J == INSTANCE LeftFold WITH Op <- Joined

(***************************************************************************)
(* The folds of Jsonl are folds of LeftFold.                               *)
(***************************************************************************)

\* Applying writes one after the other is a fold of Apply.
LEMMA ApplyFolded ==
  ASSUME NEW m, NEW ws
  PROVE  FoldLeft(Apply, m, ws) = A!Folded(m, ws)
BY DEF A!Folded, FoldLeft, A!FoldLeft, A!MapThenFoldSet, MapThenFoldSet, A!Max, Max

\* Counting dead writes is a fold of Count.
LEMMA CountFolded ==
  ASSUME NEW m, NEW ws
  PROVE  FoldLeft(Count, m, ws) = C!Folded(m, ws)
BY DEF C!Folded, FoldLeft, C!FoldLeft, C!MapThenFoldSet, MapThenFoldSet, C!Max, Max

\* The writes of a file are its lines, joined.
LEMMA WritesFolded ==
  ASSUME NEW S, NEW lines \in Seq(Seq(S))
  PROVE  Writes(lines) = J!Folded(<<>>, lines)
<1>1. Len(lines) \in Nat
  OBVIOUS
<1>2. PICK g : J!Trace(g, <<>>, lines)
  BY J!FoldTrace
<1>3. J!Folded(<<>>, lines) = g[Len(lines)]
  BY <1>2, J!FoldTrace
<1>4. CASE Len(lines) = 0
  <2>1. lines = <<>>
    BY <1>4
  <2>2. Writes(lines) = <<>>
    BY <2>1 DEF Writes, FlattenSeq
  <2>3. g[0] = <<>>
    BY <1>2 DEF J!Trace
  <2> QED
    BY <1>3, <1>4, <2>2, <2>3
<1>5. CASE Len(lines) # 0
  <2> DEFINE Steps(f) == f = [i \in 1 .. Len(lines) |->
                                IF i = 1 THEN lines[i] ELSE f[i - 1] \o lines[i]]
             flatten == CHOOSE f : Steps(f)
  <2>1. Writes(lines) = flatten[Len(lines)]
    BY <1>5 DEF Writes, FlattenSeq
  <2>2. Steps([i \in 1 .. Len(lines) |-> g[i]])
    <3>1. ASSUME NEW i \in 1 .. Len(lines)
          PROVE  g[i] = IF i = 1 THEN lines[i] ELSE [j \in 1 .. Len(lines) |-> g[j]][i - 1] \o lines[i]
      <4>1. g[i] = g[i - 1] \o lines[i] /\ g[0] = <<>>
        BY <1>2 DEF J!Trace, Joined
      <4>2. CASE i = 1
        <5>1. i - 1 = 0 /\ lines[i] \in Seq(S)
          BY <4>2
        <5>2. <<>> \o lines[i] = lines[i]
          BY <5>1
        <5> QED
          BY <4>1, <4>2, <5>1, <5>2
      <4>3. CASE i # 1
        <5>1. i - 1 \in 1 .. Len(lines)
          BY <1>1, <4>3
        <5> QED
          BY <4>1, <4>3, <5>1
      <4> QED
        BY <4>2, <4>3
    <3> QED
      BY <3>1
  <2>3. Steps(flatten)
    BY <2>2
  <2>4. \A i \in 1 .. Len(lines) :
          flatten[i] = IF i = 1 THEN lines[i] ELSE flatten[i - 1] \o lines[i]
    BY <2>3
  <2> HIDE DEF flatten, Steps
  <2> DEFINE h == [i \in 0 .. Len(lines) |-> IF i = 0 THEN <<>> ELSE flatten[i]]
  <2>5. ASSUME NEW i \in 1 .. Len(lines)
        PROVE  h[i] = Joined(h[i - 1], lines[i])
    <3>1. i \in 0 .. Len(lines) /\ i # 0 /\ i - 1 \in 0 .. Len(lines)
      BY <1>1
    <3>2. h[i] = flatten[i]
      BY <3>1
    <3>3. CASE i = 1
      <4>1. h[i - 1] = <<>> /\ flatten[i] = lines[i] /\ lines[i] \in Seq(S)
        BY <2>4, <3>1, <3>3
      <4>2. <<>> \o lines[i] = lines[i]
        BY <4>1
      <4> QED
        BY <3>2, <4>1, <4>2 DEF Joined
    <3>4. CASE i # 1
      <4>1. h[i - 1] = flatten[i - 1]
        BY <3>1, <3>4
      <4>2. flatten[i] = flatten[i - 1] \o lines[i]
        BY <2>4, <3>4
      <4> QED
        BY <3>2, <4>1, <4>2 DEF Joined
    <3> QED
      BY <3>3, <3>4
  <2>6. h[0] = <<>> /\ h[Len(lines)] = flatten[Len(lines)] /\ DOMAIN h = 0 .. Len(lines)
    BY <1>1, <1>5
  <2>7. J!Trace(h, <<>>, lines)
    BY <2>5, <2>6 DEF J!Trace
  <2> HIDE DEF h
  <2>8. J!Folded(<<>>, lines) = h[Len(lines)]
    BY <2>7, J!FoldTrace
  <2> QED
    BY <2>1, <2>6, <2>8
<1> QED
  BY <1>4, <1>5

\* Joining keeps sequences over a set.
LEMMA WritesIn ==
  ASSUME NEW S, NEW lines \in Seq(Seq(S))
  PROVE  Writes(lines) \in Seq(S)
<1>1. <<>> \in Seq(S)
  OBVIOUS
<1>2. \A m \in Seq(S) : \A x \in Seq(S) : Joined(m, x) \in Seq(S)
  BY DEF Joined
<1>3. J!Folded(<<>>, lines) \in Seq(S)
  BY <1>1, <1>2, J!FoldIn
<1> QED
  BY <1>3, WritesFolded

\* A line appended to the file appends its writes.
LEMMA WritesAppend ==
  ASSUME NEW S, NEW lines \in Seq(Seq(S)), NEW line \in Seq(S)
  PROVE  Writes(Append(lines, line)) = Writes(lines) \o line
<1>1. Append(lines, line) = lines \o <<line>> /\ <<line>> \in Seq(Seq(S))
  OBVIOUS
<1>2. Append(lines, line) \in Seq(Seq(S))
  OBVIOUS
<1>3. J!Folded(<<>>, lines \o <<line>>) = J!Folded(J!Folded(<<>>, lines), <<line>>)
  BY <1>1, J!FoldConcat
<1>4. J!Folded(J!Folded(<<>>, lines), <<line>>) = J!Folded(<<>>, lines) \o line
  BY J!FoldOne DEF Joined
<1> QED
  BY <1>1, <1>2, <1>3, <1>4, WritesFolded

\* The writes of two runs of lines are the writes of the one, then the other.
LEMMA WritesConcat ==
  ASSUME NEW S, NEW a \in Seq(Seq(S)), NEW b \in Seq(Seq(S))
  PROVE  Writes(a \o b) = Writes(a) \o Writes(b)
<1>1. Writes(a) \in Seq(S) /\ Writes(b) \in Seq(S) /\ a \o b \in Seq(Seq(S))
  BY WritesIn
<1> DEFINE R == {t \in Seq(S) \X Seq(S) : t[1] = Writes(a) \o t[2]}
<1>2. <<Writes(a), <<>>>> \in R
  <2>1. <<>> \in Seq(S) /\ Writes(a) \o <<>> = Writes(a)
    BY <1>1
  <2> QED
    BY <1>1, <2>1
<1>3. \A m1, m2 : \A x \in Seq(S) : <<m1, m2>> \in R => <<Joined(m1, x), Joined(m2, x)>> \in R
  <2>1. ASSUME NEW m1, NEW m2, NEW x \in Seq(S), <<m1, m2>> \in R
        PROVE  <<Joined(m1, x), Joined(m2, x)>> \in R
    <3>1. m1 \in Seq(S) /\ m2 \in Seq(S) /\ m1 = Writes(a) \o m2
      BY <2>1
    <3>2. (Writes(a) \o m2) \o x = Writes(a) \o (m2 \o x)
      BY <1>1, <3>1
    <3>3. m1 \o x \in Seq(S) /\ m2 \o x \in Seq(S) /\ m1 \o x = Writes(a) \o (m2 \o x)
      BY <3>1, <3>2
    <3>4. Joined(m1, x) = m1 \o x /\ Joined(m2, x) = m2 \o x
      BY DEF Joined
    <3> QED
      BY <3>3, <3>4
  <2> QED
    BY <2>1
<1> HIDE DEF R
<1>4. <<J!Folded(Writes(a), b), J!Folded(<<>>, b)>> \in R
  BY <1>2, <1>3, J!FoldAgree
<1>5. J!Folded(<<>>, a \o b) = J!Folded(J!Folded(<<>>, a), b)
  BY J!FoldConcat
<1> QED
  BY <1>1, <1>4, <1>5, WritesFolded DEF R

\* A file with one write per line has these writes.
LEMMA WritesSingles ==
  ASSUME NEW S, NEW ws \in Seq(S)
  PROVE  Writes([i \in DOMAIN ws |-> <<ws[i]>>]) = ws
<1> DEFINE lines == [i \in DOMAIN ws |-> <<ws[i]>>]
<1>1. lines \in Seq(Seq(S)) /\ Len(lines) = Len(ws) /\ Len(ws) \in Nat
  <2>1. DOMAIN ws = 1 .. Len(ws) /\ Len(ws) \in Nat
    OBVIOUS
  <2>2. \A i \in 1 .. Len(ws) : <<ws[i]>> \in Seq(S)
    OBVIOUS
  <2>3. lines \in [1 .. Len(ws) -> Seq(S)]
    BY <2>1, <2>2
  <2> HIDE DEF lines
  <2>4. lines \in Seq(Seq(S)) /\ DOMAIN lines = 1 .. Len(ws)
    BY <2>1, <2>3
  <2> QED
    BY <2>1, <2>4
<1>2. \A i \in 1 .. Len(lines) : lines[i] = <<ws[i]>> /\ ws[i] \in S
  OBVIOUS
<1> HIDE DEF lines
<1> DEFINE T == {<<i, SubSeq(ws, 1, i)>> : i \in 0 .. Len(ws)}
<1>3. <<0, <<>>>> \in T
  <2>1. SubSeq(ws, 1, 0) = <<>> /\ 0 \in 0 .. Len(ws)
    BY <1>1
  <2> QED
    BY <2>1
<1>4. \A i \in 1 .. Len(lines) : \A m : <<i - 1, m>> \in T => <<i, Joined(m, lines[i])>> \in T
  <2>1. ASSUME NEW i \in 1 .. Len(lines), NEW m, <<i - 1, m>> \in T
        PROVE  <<i, Joined(m, lines[i])>> \in T
    <3>1. i \in 0 .. Len(ws) /\ i \in 1 .. Len(ws)
      BY <1>1
    <3>2. m = SubSeq(ws, 1, i - 1)
      BY <2>1
    <3>3. SubSeq(ws, 1, i - 1) \o <<ws[i]>> = SubSeq(ws, 1, i)
      BY <1>1, <3>1
    <3> QED
      BY <1>2, <3>1, <3>2, <3>3 DEF Joined
  <2> QED
    BY <2>1
<1>5. <<Len(lines), J!Folded(<<>>, lines)>> \in T
  <2> HIDE DEF T
  <2> QED
    BY <1>1, <1>3, <1>4, J!FoldSteps
<1>6. J!Folded(<<>>, lines) = SubSeq(ws, 1, Len(ws))
  BY <1>1, <1>5
<1>7. SubSeq(ws, 1, Len(ws)) = ws
  BY <1>1
<1> QED
  BY <1>1, <1>6, <1>7, WritesFolded DEF lines

(***************************************************************************)
(* Memory: the maps of an open session.                                    *)
(***************************************************************************)

\* The writes a transaction can hold: a set has a version, a register a key.
Legal ==
  {w \in [seq : Nat, kind : Kinds, key : 0 .. KeyCount] :
     /\ w.kind = "set" => w.seq # 0
     /\ IsRegister(w) => w.key \in Keys}

Within(f, n) == \A i \in DOMAIN f : f[i] <= n

MemoryType == [entries : Seq(Nat), usage : Seq(Nat), regs : [Keys -> Nat], seq : Nat]

\* Nothing in the maps is newer than the counter says.
Memory ==
  {m \in MemoryType :
     Within(m.entries, m.seq) /\ Within(m.usage, m.seq) /\ Within(m.regs, m.seq)}

\* The maps of a new session are a memory.
LEMMA EmptyIsMemory == Empty \in Memory
BY DEF Empty, Memory, MemoryType, Within

\* What is appended within a bound stays within it.
LEMMA AppendWithin ==
  ASSUME NEW s \in Seq(Nat), NEW x \in Nat, NEW n \in Nat, Within(s, n), x <= n
  PROVE  Append(s, x) \in Seq(Nat) /\ Within(Append(s, x), n)
<1>1. Append(s, x) \in Seq(Nat) /\ Len(s) \in Nat /\ Len(Append(s, x)) = Len(s) + 1
  OBVIOUS
<1>2. ASSUME NEW i \in 1 .. Len(s) + 1
      PROVE  Append(s, x)[i] <= n
  <2>1. CASE i = Len(s) + 1
    BY <2>1
  <2>2. CASE i # Len(s) + 1
    <3>1. i \in 1 .. Len(s) /\ i \in DOMAIN s
      BY <1>1, <2>2
    <3>2. Append(s, x)[i] = s[i]
      BY <3>1
    <3> QED
      BY <3>1, <3>2 DEF Within
  <2> QED
    BY <2>1, <2>2
<1>3. DOMAIN Append(s, x) = 1 .. Len(s) + 1
  BY <1>1
<1> QED
  BY <1>1, <1>2, <1>3 DEF Within

\* A write is in the maps or takes something from them, and the counter is
\* at least its seq (Storage::apply).
LEMMA ApplyIsMemory ==
  ASSUME NEW m \in Memory, NEW w \in Legal
  PROVE  Apply(m, w) \in Memory /\ m.seq <= Apply(m, w).seq /\ w.seq <= Apply(m, w).seq
<1> DEFINE n == IF w.seq > m.seq THEN w.seq ELSE m.seq
<1>1. /\ m.seq \in Nat /\ w.seq \in Nat /\ m.entries \in Seq(Nat) /\ m.usage \in Seq(Nat)
      /\ m.regs \in [Keys -> Nat] /\ w.kind \in Kinds /\ m \in MemoryType
      /\ IsRegister(w) => w.key \in Keys
  BY DEF Memory, MemoryType, Legal
<1>2. Within(m.entries, m.seq) /\ Within(m.usage, m.seq) /\ Within(m.regs, m.seq)
  BY DEF Memory
<1>3. n \in Nat /\ m.seq <= n /\ w.seq <= n
  BY <1>1
<1> HIDE DEF n
<1>4. Within(m.entries, n) /\ Within(m.usage, n) /\ Within(m.regs, n)
  <2>1. \A i \in DOMAIN m.entries : m.entries[i] \in Nat /\ m.entries[i] <= n
    BY <1>1, <1>2, <1>3 DEF Within
  <2>2. \A i \in DOMAIN m.usage : m.usage[i] <= n
    BY <1>1, <1>2, <1>3 DEF Within
  <2>3. \A i \in DOMAIN m.regs : m.regs[i] <= n
    BY <1>1, <1>2, <1>3 DEF Within
  <2>4. Within(m.entries, n)
    BY <2>1 DEF Within
  <2>5. Within(m.usage, n)
    BY <2>2 DEF Within
  <2>6. Within(m.regs, n)
    BY <2>3 DEF Within
  <2> QED
    BY <2>4, <2>5, <2>6
<1>5. /\ Append(m.entries, w.seq) \in Seq(Nat) /\ Within(Append(m.entries, w.seq), n)
      /\ Append(m.usage, w.seq) \in Seq(Nat) /\ Within(Append(m.usage, w.seq), n)
  BY <1>1, <1>3, <1>4, AppendWithin
<1>6. CASE w.kind = "entry"
  <2> DEFINE e == Append(m.entries, w.seq)
  <2>1. Apply(m, w) = [entries |-> e, usage |-> m.usage, regs |-> m.regs, seq |-> n]
    BY <1>1, <1>6 DEF Apply, MemoryType, n
  <2>2. e \in Seq(Nat) /\ Within(e, n)
    BY <1>5
  <2> HIDE DEF e
  <2> QED
    BY <1>1, <1>3, <1>4, <2>1, <2>2 DEF Memory, MemoryType
<1>7. CASE w.kind = "usage"
  <2> DEFINE e == Append(m.usage, w.seq)
  <2>1. Apply(m, w) = [entries |-> m.entries, usage |-> e, regs |-> m.regs, seq |-> n]
    BY <1>1, <1>7 DEF Apply, MemoryType, n
  <2>2. e \in Seq(Nat) /\ Within(e, n)
    BY <1>5
  <2> HIDE DEF e
  <2> QED
    BY <1>1, <1>3, <1>4, <2>1, <2>2 DEF Memory, MemoryType
<1>8. CASE w.kind = "set"
  <2> DEFINE r == [m.regs EXCEPT ![w.key] = w.seq]
  <2>1. Apply(m, w) = [entries |-> m.entries, usage |-> m.usage, regs |-> r, seq |-> n]
    BY <1>1, <1>8 DEF Apply, MemoryType, n
  <2>2. r \in [Keys -> Nat] /\ Within(r, n)
    BY <1>1, <1>3, <1>4, <1>8 DEF Within
  <2> HIDE DEF r
  <2> QED
    BY <1>1, <1>3, <1>4, <2>1, <2>2 DEF Memory, MemoryType
<1>9. CASE w.kind = "delete"
  <2> DEFINE r == [m.regs EXCEPT ![w.key] = 0]
  <2>1. Apply(m, w) = [entries |-> m.entries, usage |-> m.usage, regs |-> r, seq |-> n]
    BY <1>1, <1>9 DEF Apply, MemoryType, n
  <2>2. r \in [Keys -> Nat]
    BY <1>1
  <2>3. \A k \in Keys : r[k] <= n
    <3>1. \A k \in Keys : r[k] = m.regs[k] \/ r[k] = 0
      BY <1>1
    <3>2. \A k \in Keys : m.regs[k] <= n
      BY <1>1, <1>4 DEF Within
    <3> QED
      BY <1>3, <3>1, <3>2
  <2>4. Within(r, n)
    BY <2>2, <2>3 DEF Within
  <2> HIDE DEF r
  <2> QED
    BY <1>1, <1>3, <1>4, <2>1, <2>2, <2>4 DEF Memory, MemoryType
<1> QED
  BY <1>1, <1>6, <1>7, <1>8, <1>9 DEF Kinds

\* A write does to the maps the same whatever the counter is.
LEMMA ApplyLogical ==
  ASSUME NEW a \in Memory, NEW b \in Memory, Logical(a) = Logical(b), NEW w \in Legal
  PROVE  Logical(Apply(a, w)) = Logical(Apply(b, w))
<1>1. a.entries = b.entries /\ a.usage = b.usage /\ a.regs = b.regs
  BY DEF Logical
<1>2. a \in MemoryType /\ b \in MemoryType /\ w.kind \in Kinds
  BY DEF Memory, Legal
<1>3. /\ Apply(a, w).entries = Apply(b, w).entries
      /\ Apply(a, w).usage = Apply(b, w).usage
      /\ Apply(a, w).regs = Apply(b, w).regs
  <2>1. CASE w.kind = "entry"
    BY <1>1, <1>2, <2>1 DEF Apply, MemoryType
  <2>2. CASE w.kind = "usage"
    BY <1>1, <1>2, <2>2 DEF Apply, MemoryType
  <2>3. CASE w.kind = "set"
    BY <1>1, <1>2, <2>3 DEF Apply, MemoryType
  <2>4. CASE w.kind = "delete"
    BY <1>1, <1>2, <2>4 DEF Apply, MemoryType
  <2> QED
    BY <1>2, <2>1, <2>2, <2>3, <2>4 DEF Kinds
<1> QED
  BY <1>3 DEF Logical

\* Writes leave memory a memory, with a counter no write is beyond.
LEMMA FoldedIsMemory ==
  ASSUME NEW m \in Memory, NEW ws \in Seq(Legal)
  PROVE  /\ A!Folded(m, ws) \in Memory
         /\ \A i \in DOMAIN ws : ws[i].seq <= A!Folded(m, ws).seq
         /\ m.seq <= A!Folded(m, ws).seq
<1> DEFINE T == {t \in Nat \X Memory : /\ m.seq <= t[2].seq
                                       /\ \A j \in DOMAIN ws : j <= t[1] => ws[j].seq <= t[2].seq}
<1>1. m.seq \in Nat /\ Len(ws) \in Nat /\ DOMAIN ws = 1 .. Len(ws)
  BY DEF Memory, MemoryType
<1>2. <<0, m>> \in T
  BY <1>1
<1>3. \A i \in 1 .. Len(ws) : \A x : <<i - 1, x>> \in T => <<i, Apply(x, ws[i])>> \in T
  <2>1. ASSUME NEW i \in 1 .. Len(ws), NEW x, <<i - 1, x>> \in T
        PROVE  <<i, Apply(x, ws[i])>> \in T
    <3>1. /\ x \in Memory /\ m.seq <= x.seq
          /\ \A j \in DOMAIN ws : j <= i - 1 => ws[j].seq <= x.seq
      BY <2>1
    <3>2. ws[i] \in Legal
      BY <1>1
    <3>3. /\ Apply(x, ws[i]) \in Memory
          /\ x.seq <= Apply(x, ws[i]).seq /\ ws[i].seq <= Apply(x, ws[i]).seq
      BY <3>1, <3>2, ApplyIsMemory
    <3> DEFINE y == Apply(x, ws[i])
    <3>4. y \in Memory /\ x.seq <= y.seq /\ ws[i].seq <= y.seq
      BY <3>3
    <3> HIDE DEF y
    <3>5. x.seq \in Nat /\ y.seq \in Nat /\ \A j \in DOMAIN ws : ws[j].seq \in Nat
      BY <1>1, <3>1, <3>4 DEF Memory, MemoryType, Legal
    <3>6. m.seq <= y.seq
      BY <1>1, <3>1, <3>4, <3>5
    <3>7. ASSUME NEW j \in DOMAIN ws, j <= i
          PROVE  ws[j].seq <= y.seq
      <4>1. CASE j = i
        BY <3>4, <4>1
      <4>2. CASE j # i
        <5>1. j <= i - 1
          BY <1>1, <3>7, <4>2
        <5> QED
          BY <3>1, <3>4, <3>5, <5>1
      <4> QED
        BY <4>1, <4>2
    <3>8. <<i, y>> \in T
      BY <3>4, <3>6, <3>7
    <3> QED
      BY <3>8 DEF y
  <2> QED
    BY <2>1
<1> HIDE DEF T
<1>4. <<Len(ws), A!Folded(m, ws)>> \in T
  BY <1>2, <1>3, A!FoldSteps
<1> QED
  BY <1>1, <1>4 DEF T

\* Nor does the counter matter to a run of writes.
LEMMA FoldedLogical ==
  ASSUME NEW a \in Memory, NEW b \in Memory, Logical(a) = Logical(b), NEW ws \in Seq(Legal)
  PROVE  Logical(A!Folded(a, ws)) = Logical(A!Folded(b, ws))
<1> DEFINE R == {t \in Memory \X Memory : Logical(t[1]) = Logical(t[2])}
<1>1. <<a, b>> \in R
  OBVIOUS
<1>2. \A m1, m2 : \A x \in Legal : <<m1, m2>> \in R => <<Apply(m1, x), Apply(m2, x)>> \in R
  <2>1. ASSUME NEW m1, NEW m2, NEW x \in Legal, <<m1, m2>> \in R
        PROVE  <<Apply(m1, x), Apply(m2, x)>> \in R
    <3>1. m1 \in Memory /\ m2 \in Memory /\ Logical(m1) = Logical(m2)
      BY <2>1
    <3>2. Apply(m1, x) \in Memory /\ Apply(m2, x) \in Memory
      BY <3>1, ApplyIsMemory
    <3>3. Logical(Apply(m1, x)) = Logical(Apply(m2, x))
      BY <3>1, ApplyLogical
    <3> QED
      BY <3>2, <3>3
  <2> QED
    BY <2>1
<1> HIDE DEF R
<1>3. <<A!Folded(a, ws), A!Folded(b, ws)>> \in R
  BY <1>1, <1>2, A!FoldAgree
<1> QED
  BY <1>3 DEF R

\* Replaying the file is replaying its writes, and gives a memory.
LEMMA ReplayFolded ==
  ASSUME NEW lines \in Seq(Seq(Legal))
  PROVE  /\ Writes(lines) \in Seq(Legal)
         /\ Replay(lines) = A!Folded(Empty, Writes(lines))
         /\ Replay(lines) \in Memory
         /\ \A i \in DOMAIN Writes(lines) : Writes(lines)[i].seq <= Replay(lines).seq
<1>1. Writes(lines) \in Seq(Legal)
  BY WritesIn
<1>2. Replay(lines) = A!Folded(Empty, Writes(lines))
  BY ApplyFolded DEF Replay
<1> QED
  BY <1>1, <1>2, EmptyIsMemory, FoldedIsMemory

(***************************************************************************)
(* The rewrite.                                                            *)
(***************************************************************************)

\* The legal writes up to a seq.
Dated(n) == {w \in Legal : w.seq <= n}

EntryWrites(s) == [i \in DOMAIN s |-> [seq |-> s[i], kind |-> "entry", key |-> 0]]
UsageWrites(s) == [i \in DOMAIN s |-> [seq |-> s[i], kind |-> "usage", key |-> 0]]

\* A prefix of a sequence grows by one element at a time.
LEMMA PrefixGrows ==
  ASSUME NEW S, NEW a \in Seq(S), NEW s \in Seq(S), NEW i \in 1 .. Len(s)
  PROVE  Append(a \o SubSeq(s, 1, i - 1), s[i]) = a \o SubSeq(s, 1, i)
<1>1. Append(SubSeq(s, 1, i - 1), s[i]) = SubSeq(s, 1, i)
  OBVIOUS
<1>2. SubSeq(s, 1, i - 1) \in Seq(S) /\ s[i] \in S
  OBVIOUS
<1> DEFINE b == SubSeq(s, 1, i - 1)
           x == s[i]
<1> HIDE DEF b, x
<1>3. ASSUME b \in Seq(S), x \in S
      PROVE  Append(a \o b, x) = a \o Append(b, x)
  <2>1. Append(b, x) = b \o <<x>> /\ <<x>> \in Seq(S)
    BY <1>3
  <2>2. a \o b \in Seq(S)
    BY <1>3
  <2>3. Append(a \o b, x) = (a \o b) \o <<x>>
    BY <1>3, <2>2
  <2>4. (a \o b) \o <<x>> = a \o (b \o <<x>>)
    BY <1>3, <2>1
  <2> QED
    BY <2>1, <2>3, <2>4
<1> QED
  BY <1>1, <1>2, <1>3 DEF b, x

\* Rewritten entries are replayed to the entries they were.
LEMMA FoldEntries ==
  ASSUME NEW m \in Memory, NEW n \in Nat, NEW s \in Seq(Nat), Within(s, n)
  PROVE  /\ EntryWrites(s) \in Seq(Dated(n))
         /\ A!Folded(m, EntryWrites(s)) \in Memory
         /\ A!Folded(m, EntryWrites(s)).entries = m.entries \o s
         /\ A!Folded(m, EntryWrites(s)).usage = m.usage
         /\ A!Folded(m, EntryWrites(s)).regs = m.regs
<1> DEFINE ws == EntryWrites(s)
           T == {t \in Nat \X Memory : /\ t[2].entries = m.entries \o SubSeq(s, 1, t[1])
                                       /\ t[2].usage = m.usage /\ t[2].regs = m.regs}
<1>1. Len(s) \in Nat /\ DOMAIN s = 1 .. Len(s) /\ \A i \in 1 .. Len(s) : s[i] \in Nat /\ s[i] <= n
  BY DEF Within
<1>2. \A i \in 1 .. Len(s) : [seq |-> s[i], kind |-> "entry", key |-> 0] \in Dated(n)
  BY <1>1, KeyCountAssumption DEF Dated, Legal, Kinds, IsRegister
<1>3. ws \in [1 .. Len(s) -> Dated(n)]
  BY <1>1, <1>2 DEF EntryWrites
<1>4. ws \in Seq(Dated(n)) /\ Len(ws) = Len(s) /\ Dated(n) \subseteq Legal
  BY <1>1, <1>3 DEF Dated
<1>5. \A i \in 1 .. Len(s) : ws[i] = [seq |-> s[i], kind |-> "entry", key |-> 0]
  BY <1>1 DEF EntryWrites
<1>6. m \in MemoryType
  BY DEF Memory
<1> HIDE DEF ws
<1>7. <<0, m>> \in T
  <2>1. m.entries \o SubSeq(s, 1, 0) = m.entries
    BY <1>6 DEF MemoryType
  <2> QED
    BY <2>1
<1>8. \A i \in 1 .. Len(ws) : \A x : <<i - 1, x>> \in T => <<i, Apply(x, ws[i])>> \in T
  <2>1. ASSUME NEW i \in 1 .. Len(ws), NEW x, <<i - 1, x>> \in T
        PROVE  <<i, Apply(x, ws[i])>> \in T
    <3>1. /\ x \in Memory /\ x.entries = m.entries \o SubSeq(s, 1, i - 1)
          /\ x.usage = m.usage /\ x.regs = m.regs
      BY <2>1
    <3>2. i \in 1 .. Len(s) /\ ws[i] \in Legal /\ i \in Nat
      BY <1>4
    <3>3. Apply(x, ws[i]) \in Memory
      BY <3>1, <3>2, ApplyIsMemory
    <3>4. ws[i].kind = "entry" /\ ws[i].seq = s[i]
      <4>1. ws[i] = [seq |-> s[i], kind |-> "entry", key |-> 0]
        BY <1>5, <3>2
      <4> QED
        BY <4>1
    <3>5. /\ Apply(x, ws[i]).entries = Append(x.entries, s[i])
          /\ Apply(x, ws[i]).usage = x.usage /\ Apply(x, ws[i]).regs = x.regs
      BY <3>1, <3>4 DEF Apply, Memory, MemoryType
    <3>6. Append(x.entries, s[i]) = m.entries \o SubSeq(s, 1, i)
      <4>1. m.entries \in Seq(Nat)
        BY <1>6 DEF MemoryType
      <4> QED
        BY <3>1, <3>2, <4>1, PrefixGrows
    <3> HIDE DEF T
    <3> DEFINE y == Apply(x, ws[i])
    <3>7. y \in Memory /\ y.entries = m.entries \o SubSeq(s, 1, i) /\ y.usage = m.usage /\ y.regs = m.regs
      BY <3>1, <3>3, <3>5, <3>6
    <3> HIDE DEF y
    <3>8. <<i, y>> \in T
      BY <3>2, <3>7 DEF T
    <3> QED
      BY <3>8 DEF y
  <2> QED
    BY <2>1
<1> HIDE DEF T
<1>9. ws \in Seq(Legal)
  BY <1>4
<1>10. <<Len(ws), A!Folded(m, ws)>> \in T
  BY <1>7, <1>8, <1>9, A!FoldSteps
<1>11. SubSeq(s, 1, Len(s)) = s
  OBVIOUS
<1> QED
  BY <1>4, <1>10, <1>11 DEF T, ws

\* Rewritten usage rows are replayed to the rows they were.
LEMMA FoldUsage ==
  ASSUME NEW m \in Memory, NEW n \in Nat, NEW s \in Seq(Nat), Within(s, n)
  PROVE  /\ UsageWrites(s) \in Seq(Dated(n))
         /\ A!Folded(m, UsageWrites(s)) \in Memory
         /\ A!Folded(m, UsageWrites(s)).usage = m.usage \o s
         /\ A!Folded(m, UsageWrites(s)).entries = m.entries
         /\ A!Folded(m, UsageWrites(s)).regs = m.regs
<1> DEFINE ws == UsageWrites(s)
           T == {t \in Nat \X Memory : /\ t[2].usage = m.usage \o SubSeq(s, 1, t[1])
                                       /\ t[2].entries = m.entries /\ t[2].regs = m.regs}
<1>1. Len(s) \in Nat /\ DOMAIN s = 1 .. Len(s) /\ \A i \in 1 .. Len(s) : s[i] \in Nat /\ s[i] <= n
  BY DEF Within
<1>2. \A i \in 1 .. Len(s) : [seq |-> s[i], kind |-> "usage", key |-> 0] \in Dated(n)
  BY <1>1, KeyCountAssumption DEF Dated, Legal, Kinds, IsRegister
<1>3. ws \in [1 .. Len(s) -> Dated(n)]
  BY <1>1, <1>2 DEF UsageWrites
<1>4. ws \in Seq(Dated(n)) /\ Len(ws) = Len(s) /\ Dated(n) \subseteq Legal
  BY <1>1, <1>3 DEF Dated
<1>5. \A i \in 1 .. Len(s) : ws[i] = [seq |-> s[i], kind |-> "usage", key |-> 0]
  BY <1>1 DEF UsageWrites
<1>6. m \in MemoryType
  BY DEF Memory
<1> HIDE DEF ws
<1>7. <<0, m>> \in T
  <2>1. m.usage \o SubSeq(s, 1, 0) = m.usage
    BY <1>6 DEF MemoryType
  <2> QED
    BY <2>1
<1>8. \A i \in 1 .. Len(ws) : \A x : <<i - 1, x>> \in T => <<i, Apply(x, ws[i])>> \in T
  <2>1. ASSUME NEW i \in 1 .. Len(ws), NEW x, <<i - 1, x>> \in T
        PROVE  <<i, Apply(x, ws[i])>> \in T
    <3>1. /\ x \in Memory /\ x.usage = m.usage \o SubSeq(s, 1, i - 1)
          /\ x.entries = m.entries /\ x.regs = m.regs
      BY <2>1
    <3>2. i \in 1 .. Len(s) /\ ws[i] \in Legal /\ i \in Nat
      BY <1>4
    <3>3. Apply(x, ws[i]) \in Memory
      BY <3>1, <3>2, ApplyIsMemory
    <3>4. ws[i].kind = "usage" /\ ws[i].seq = s[i]
      <4>1. ws[i] = [seq |-> s[i], kind |-> "usage", key |-> 0]
        BY <1>5, <3>2
      <4> QED
        BY <4>1
    <3>5. /\ Apply(x, ws[i]).usage = Append(x.usage, s[i])
          /\ Apply(x, ws[i]).entries = x.entries /\ Apply(x, ws[i]).regs = x.regs
      BY <3>1, <3>4 DEF Apply, Memory, MemoryType
    <3>6. Append(x.usage, s[i]) = m.usage \o SubSeq(s, 1, i)
      <4>1. m.usage \in Seq(Nat)
        BY <1>6 DEF MemoryType
      <4> QED
        BY <3>1, <3>2, <4>1, PrefixGrows
    <3> HIDE DEF T
    <3> DEFINE y == Apply(x, ws[i])
    <3>7. y \in Memory /\ y.usage = m.usage \o SubSeq(s, 1, i) /\ y.entries = m.entries /\ y.regs = m.regs
      BY <3>1, <3>3, <3>5, <3>6
    <3> HIDE DEF y
    <3>8. <<i, y>> \in T
      BY <3>2, <3>7 DEF T
    <3> QED
      BY <3>8 DEF y
  <2> QED
    BY <2>1
<1> HIDE DEF T
<1>9. ws \in Seq(Legal)
  BY <1>4
<1>10. <<Len(ws), A!Folded(m, ws)>> \in T
  BY <1>7, <1>8, <1>9, A!FoldSteps
<1>11. SubSeq(s, 1, Len(s)) = s
  OBVIOUS
<1> QED
  BY <1>4, <1>10, <1>11 DEF T, ws

\* The lines of one register, none when it is not set.
OfKey(mem, k) == IF k \in Live(mem) THEN <<Line("set", k, mem.regs[k])>> ELSE <<>>

\* Rewritten registers are replayed to the registers they were, onto maps
\* that have none set.
LEMMA FoldRegisters ==
  ASSUME NEW mem \in Memory, NEW m \in Memory, \A k \in Keys : m.regs[k] = 0
  PROVE  /\ RegisterLines(mem) \in Seq(Seq(Dated(mem.seq)))
         /\ A!Folded(m, Writes(RegisterLines(mem))).entries = m.entries
         /\ A!Folded(m, Writes(RegisterLines(mem))).usage = m.usage
         /\ A!Folded(m, Writes(RegisterLines(mem))).regs = mem.regs
<1> DEFINE D == Dated(mem.seq)
           F == [k \in Keys |-> OfKey(mem, k)]
           Upto(i, x) == /\ x \in Memory /\ x.entries = m.entries /\ x.usage = m.usage
                         /\ \A k \in Keys : x.regs[k] = IF k <= i THEN mem.regs[k] ELSE 0
           T == {t \in Nat \X Seq(Seq(D)) : Upto(t[1], A!Folded(m, Writes(t[2])))}
<1>1. mem.seq \in Nat /\ mem.regs \in [Keys -> Nat] /\ \A k \in Keys : mem.regs[k] <= mem.seq
  BY DEF Memory, MemoryType, Within
<1>2. KeyCount \in Nat /\ D \subseteq Legal
  BY KeyCountAssumption DEF Dated
<1>3. ASSUME NEW k \in Keys, k \in Live(mem)
      PROVE  [seq |-> mem.regs[k], kind |-> "set", key |-> k] \in D
  <2>1. mem.regs[k] # 0 /\ k \in 0 .. KeyCount /\ mem.regs[k] \in Nat /\ mem.regs[k] <= mem.seq
    BY <1>1, <1>2, <1>3 DEF Live, Keys
  <2> QED
    BY <2>1 DEF Dated, Legal, Kinds, IsRegister
<1> HIDE DEF D
<1>4. ASSUME NEW k \in Keys
      PROVE  OfKey(mem, k) \in Seq(Seq(D))
  <2>1. CASE k \in Live(mem)
    <3>1. <<[seq |-> mem.regs[k], kind |-> "set", key |-> k]>> \in Seq(D)
      BY <1>3, <2>1
    <3>2. OfKey(mem, k) = <<Line("set", k, mem.regs[k])>>
      BY <2>1 DEF OfKey
    <3> QED
      BY <3>1, <3>2 DEF Line
  <2>2. CASE k \notin Live(mem)
    BY <2>2 DEF OfKey
  <2> QED
    BY <2>1, <2>2
<1>5. F \in Seq(Seq(Seq(D))) /\ Len(F) = KeyCount
  <2>1. F \in [1 .. KeyCount -> Seq(Seq(D))]
    BY <1>4 DEF Keys
  <2> HIDE DEF F
  <2> QED
    BY <1>2, <2>1
<1>6. RegisterLines(mem) = Writes(F)
  BY DEF RegisterLines, Writes, OfKey
<1>7. \A i \in 1 .. Len(F) : i \in Keys /\ i \in Nat /\ F[i] = OfKey(mem, i)
  <2>1. \A i \in 1 .. Len(F) : i \in Keys /\ i \in Nat
    <3> HIDE DEF F
    <3> QED
      BY <1>5 DEF Keys
  <2>2. \A k \in Keys : F[k] = OfKey(mem, k)
    OBVIOUS
  <2> HIDE DEF F
  <2> QED
    BY <2>1, <2>2
<1>8. \A k \in Keys : k \in Nat /\ k >= 1
  BY <1>2 DEF Keys
<1> HIDE DEF F
<1>9. <<0, <<>>>> \in T
  <2>1. <<>> \in Seq(Seq(D)) /\ <<>> \in Seq(Seq(Legal))
    OBVIOUS
  <2>2. Writes(<<>>) = <<>>
    BY DEF Writes, FlattenSeq
  <2>3. A!Folded(m, Writes(<<>>)) = m
    BY <2>2, A!FoldEmpty
  <2>4. Upto(0, m)
    BY <1>8
  <2> HIDE DEF Upto
  <2> QED
    BY <2>1, <2>3, <2>4
<1>10. ASSUME NEW i \in 1 .. Len(F), NEW ls, <<i - 1, ls>> \in T
       PROVE  <<i, Joined(ls, F[i])>> \in T
  <2> DEFINE x == A!Folded(m, Writes(ls))
  <2>1. ls \in Seq(Seq(D)) /\ Upto(i - 1, x)
    BY <1>10
  <2>2. i \in Keys /\ i \in Nat /\ F[i] = OfKey(mem, i)
    BY <1>7
  <2>3. ls \in Seq(Seq(Legal)) /\ Writes(ls) \in Seq(Legal)
    <3>1. Seq(D) \subseteq Seq(Legal)
      BY <1>2
    <3>2. ls \in Seq(Seq(Legal))
      BY <2>1, <3>1
    <3> QED
      BY <3>2, WritesIn
  <2>4. CASE i \in Live(mem)
    <3> DEFINE w == [seq |-> mem.regs[i], kind |-> "set", key |-> i]
    <3>1. w \in D /\ w \in Legal
      BY <1>2, <1>3, <2>2, <2>4
    <3>2. Joined(ls, F[i]) = Append(ls, <<w>>)
      <4>1. F[i] = <<<<w>>>>
        BY <2>2, <2>4 DEF OfKey, Line
      <4>2. ls \o <<<<w>>>> = Append(ls, <<w>>)
        BY <2>1
      <4> QED
        BY <4>1, <4>2 DEF Joined
    <3>3. Append(ls, <<w>>) \in Seq(Seq(D))
      BY <2>1, <3>1
    <3>4. A!Folded(m, Writes(Append(ls, <<w>>))) = Apply(x, w)
      <4>1. <<w>> \in Seq(Legal)
        BY <3>1
      <4>2. Writes(Append(ls, <<w>>)) = Writes(ls) \o <<w>>
        BY <2>3, <4>1, WritesAppend
      <4>3. A!Folded(m, Writes(ls) \o <<w>>) = A!Folded(x, <<w>>)
        BY <2>3, <4>1, A!FoldConcat
      <4> QED
        BY <4>2, <4>3, A!FoldOne
    <3>5. Apply(x, w) \in Memory
      BY <2>1, <3>1, ApplyIsMemory
    <3>6. /\ Apply(x, w).entries = x.entries /\ Apply(x, w).usage = x.usage
          /\ Apply(x, w).regs = [x.regs EXCEPT ![i] = mem.regs[i]]
      BY <2>1 DEF Apply, Memory, MemoryType
    <3>7. x.regs \in [Keys -> Nat]
      BY <2>1 DEF Memory, MemoryType
    <3>8. Upto(i, Apply(x, w))
      <4>1. ASSUME NEW k \in Keys
            PROVE  [x.regs EXCEPT ![i] = mem.regs[i]][k] = IF k <= i THEN mem.regs[k] ELSE 0
        <5>1. CASE k = i
          BY <1>8, <2>2, <3>7, <5>1
        <5>2. CASE k # i
          <6>1. [x.regs EXCEPT ![i] = mem.regs[i]][k] = x.regs[k]
            BY <3>7, <5>2
          <6>2. (k <= i - 1) <=> (k <= i)
            BY <1>8, <2>2, <5>2
          <6> HIDE DEF x
          <6> QED
            BY <2>1, <6>1, <6>2
        <5> QED
          BY <5>1, <5>2
      <4> HIDE DEF x, w
      <4> QED
        BY <2>1, <3>5, <3>6, <4>1
    <3> HIDE DEF Upto, w
    <3> QED
      BY <2>2, <3>2, <3>3, <3>4, <3>8
  <2>5. CASE i \notin Live(mem)
    <3>1. Joined(ls, F[i]) = ls
      <4>1. F[i] = <<>>
        BY <2>2, <2>5 DEF OfKey
      <4>2. ls \o <<>> = ls
        BY <2>1
      <4> QED
        BY <4>1, <4>2 DEF Joined
    <3>2. mem.regs[i] = 0
      BY <2>2, <2>5 DEF Live
    <3>3. Upto(i, x)
      <4>1. ASSUME NEW k \in Keys
            PROVE  x.regs[k] = IF k <= i THEN mem.regs[k] ELSE 0
        <5> HIDE DEF x
        <5>1. CASE k = i
          BY <1>8, <2>1, <2>2, <3>2, <5>1
        <5>2. CASE k # i
          BY <1>8, <2>1, <2>2, <5>2
        <5> QED
          BY <5>1, <5>2
      <4> HIDE DEF x
      <4> QED
        BY <2>1, <4>1
    <3> HIDE DEF Upto
    <3> QED
      BY <2>1, <2>2, <3>1, <3>3
  <2> QED
    BY <2>4, <2>5
<1> HIDE DEF T
<1>11. <<Len(F), J!Folded(<<>>, F)>> \in T
  BY <1>5, <1>9, <1>10, J!FoldSteps
<1>12. <<KeyCount, RegisterLines(mem)>> \in T
  BY <1>5, <1>6, <1>11, WritesFolded
<1> DEFINE y == A!Folded(m, Writes(RegisterLines(mem)))
<1>13. RegisterLines(mem) \in Seq(Seq(D)) /\ Upto(KeyCount, y)
  BY <1>12 DEF T
<1> HIDE DEF y
<1>14. y.regs = mem.regs
  <2>1. y.regs \in [Keys -> Nat]
    BY <1>13 DEF Memory, MemoryType
  <2>2. \A k \in Keys : y.regs[k] = mem.regs[k]
    BY <1>2, <1>13 DEF Keys
  <2> QED
    BY <1>1, <2>1, <2>2
<1> QED
  BY <1>13, <1>14 DEF y, D

\* A rewrite keeps what the file says, and dates nothing beyond the counter
\* of the process that rewrites (compact_file).
LEMMA RewriteKeeps ==
  ASSUME NEW mem \in Memory
  PROVE  /\ Compacted(mem) \in Seq(Seq(Dated(mem.seq)))
         /\ Writes(Compacted(mem)) =
              (EntryWrites(mem.entries) \o UsageWrites(mem.usage)) \o Writes(RegisterLines(mem))
         /\ Writes(RegisterLines(mem)) \in Seq(Dated(mem.seq))
         /\ Logical(Replay(Compacted(mem))) = Logical(mem)
<1> DEFINE D == Dated(mem.seq)
           ews == EntryWrites(mem.entries)
           uws == UsageWrites(mem.usage)
           els == [i \in DOMAIN ews |-> <<ews[i]>>]
           uls == [i \in DOMAIN uws |-> <<uws[i]>>]
           m1 == A!Folded(Empty, ews)
           m2 == A!Folded(m1, uws)
           m3 == A!Folded(m2, Writes(RegisterLines(mem)))
<1>1. /\ mem \in MemoryType /\ mem.seq \in Nat /\ mem.entries \in Seq(Nat) /\ mem.usage \in Seq(Nat)
      /\ Within(mem.entries, mem.seq) /\ Within(mem.usage, mem.seq)
  BY DEF Memory, MemoryType
<1>2. D \subseteq Legal
  BY DEF Dated
<1>3. /\ ews \in Seq(D) /\ m1 \in Memory /\ m1.entries = Empty.entries \o mem.entries
      /\ m1.usage = Empty.usage /\ m1.regs = Empty.regs
  BY <1>1, EmptyIsMemory, FoldEntries
<1>4. /\ uws \in Seq(D) /\ m2 \in Memory /\ m2.usage = m1.usage \o mem.usage
      /\ m2.entries = m1.entries /\ m2.regs = m1.regs
  BY <1>1, <1>3, FoldUsage
<1>5. /\ m2.entries = mem.entries /\ m2.usage = mem.usage /\ \A k \in Keys : m2.regs[k] = 0
  <2> HIDE DEF m1, m2, ews, uws
  <2>1. Empty.entries = <<>> /\ Empty.usage = <<>> /\ \A k \in Keys : Empty.regs[k] = 0
    BY DEF Empty
  <2>2. <<>> \o mem.entries = mem.entries /\ <<>> \o mem.usage = mem.usage
    BY <1>1
  <2> QED
    BY <1>3, <1>4, <2>1, <2>2
<1>6. /\ RegisterLines(mem) \in Seq(Seq(D))
      /\ m3.entries = mem.entries /\ m3.usage = mem.usage /\ m3.regs = mem.regs
  BY <1>4, <1>5, FoldRegisters
<1>7. Compacted(mem) = els \o uls \o RegisterLines(mem)
  <2>1. [i \in DOMAIN mem.entries |-> Line("entry", 0, mem.entries[i])] = els
    BY DEF EntryWrites, Line
  <2>2. [i \in DOMAIN mem.usage |-> Line("usage", 0, mem.usage[i])] = uls
    BY DEF UsageWrites, Line
  <2> QED
    BY <2>1, <2>2 DEF Compacted
<1>8. Writes(els) = ews /\ Writes(uls) = uws
  <2> HIDE DEF ews, uws
  <2> QED
    BY <1>3, <1>4, WritesSingles
<1>9. els \in Seq(Seq(D)) /\ uls \in Seq(Seq(D))
  <2> HIDE DEF ews, uws, D
  <2>1. ASSUME NEW ws \in Seq(D)
        PROVE  [i \in DOMAIN ws |-> <<ws[i]>>] \in Seq(Seq(D))
    <3>1. DOMAIN ws = 1 .. Len(ws) /\ Len(ws) \in Nat /\ \A i \in 1 .. Len(ws) : <<ws[i]>> \in Seq(D)
      OBVIOUS
    <3>2. [i \in DOMAIN ws |-> <<ws[i]>>] \in [1 .. Len(ws) -> Seq(D)]
      BY <3>1
    <3> QED
      BY <3>1, <3>2
  <2> QED
    BY <1>3, <1>4, <2>1
<1> DEFINE rls == RegisterLines(mem)
<1> HIDE DEF D, ews, uws, els, uls, rls
<1>10. rls \in Seq(Seq(D)) /\ Compacted(mem) = els \o uls \o rls
  BY <1>6, <1>7 DEF rls
<1>11. els \o uls \in Seq(Seq(D)) /\ Compacted(mem) \in Seq(Seq(D))
  BY <1>9, <1>10
<1>12. Writes(Compacted(mem)) = (ews \o uws) \o Writes(rls)
  <2>1. Writes(els \o uls) = Writes(els) \o Writes(uls)
    BY <1>9, WritesConcat
  <2>2. Writes((els \o uls) \o rls) = Writes(els \o uls) \o Writes(rls)
    BY <1>10, <1>11, WritesConcat
  <2> QED
    BY <1>8, <1>10, <2>1, <2>2
<1>13. Replay(Compacted(mem)) = m3
  <2>1. Replay(Compacted(mem)) = A!Folded(Empty, Writes(Compacted(mem)))
    BY ApplyFolded DEF Replay
  <2>2. Writes(rls) \in Seq(D) /\ ews \o uws \in Seq(D)
    BY <1>3, <1>4, <1>10, WritesIn
  <2>3. A!Folded(Empty, (ews \o uws) \o Writes(rls))
          = A!Folded(A!Folded(Empty, ews \o uws), Writes(rls))
    BY <2>2, A!FoldConcat
  <2>4. A!Folded(Empty, ews \o uws) = m2
    BY <1>3, <1>4, A!FoldConcat
  <2> QED
    BY <1>12, <2>1, <2>3, <2>4 DEF rls
<1>14. Writes(rls) \in Seq(D)
  BY <1>10, WritesIn
<1> QED
  BY <1>6, <1>11, <1>12, <1>13, <1>14 DEF D, Logical, ews, uws, rls

\* The line of a transaction: its writes are legal, and it is numbered from
\* the counter up (commit).
LEMMA NumberedIsLegal ==
  ASSUME NEW tx \in Transactions, NEW seq \in Nat
  PROVE  Numbered(tx, seq) \in Seq(Legal)
<1>1. /\ tx \in Seq([kind : Kinds, key : 0 .. KeyCount])
      /\ \A i \in DOMAIN tx : IsRegister(tx[i]) => tx[i].key \in Keys
  BY TransactionsAssumption
<1>2. DOMAIN tx = 1 .. Len(tx) /\ Len(tx) \in Nat
  BY <1>1
<1>3. ASSUME NEW i \in 1 .. Len(tx)
      PROVE  [seq |-> seq + i, kind |-> tx[i].kind, key |-> tx[i].key] \in Legal
  <2>1. tx[i].kind \in Kinds /\ tx[i].key \in 0 .. KeyCount
    <3> DEFINE R == [kind : Kinds, key : 0 .. KeyCount]
    <3>1. tx[i] \in R
      <4>1. tx \in Seq(R)
        BY <1>1
      <4> HIDE DEF R
      <4> QED
        BY <4>1
    <3> QED
      BY <3>1
  <2>2. seq + i \in Nat /\ seq + i # 0
    OBVIOUS
  <2>3. tx[i].kind \in {"set", "delete"} => tx[i].key \in Keys
    BY <1>1, <1>2 DEF IsRegister
  <2> QED
    BY <2>1, <2>2, <2>3 DEF Legal, IsRegister
<1>4. Numbered(tx, seq) \in [1 .. Len(tx) -> Legal]
  BY <1>2, <1>3 DEF Numbered
<1> QED
  BY <1>2, <1>4

(***************************************************************************)
(* Types, for any number of processes.                                     *)
(***************************************************************************)
FileType == [lines : Seq(Seq(Legal)), torn : BOOLEAN]

ProcType ==
  [pc : {"closed", "opened", "locked", "compacting", "renamed", "open"},
   inode : Nat, mem : Memory]

FilesTyped == files \in Seq(FileType) /\ path \in DOMAIN files

LockTyped == lock \in Seq(Procs \cup {NoProc}) /\ Len(lock) = Len(files)

InodesExist == \A p \in Procs : proc[p].pc # "closed" => proc[p].inode \in DOMAIN files

Types ==
  /\ FilesTyped
  /\ LockTyped
  /\ proc \in [Procs -> ProcType] /\ InodesExist
  /\ truth \in Memory

\* A process that has nothing open is typed.
LEMMA ClosedIsProc == Closed \in ProcType
BY EmptyIsMemory DEF Closed, ProcType

\* Letting go of locks leaves the others.
LEMMA UnlockedTyped ==
  ASSUME NEW p, lock \in Seq(Procs \cup {NoProc})
  PROVE  /\ Unlocked(p) \in Seq(Procs \cup {NoProc}) /\ Len(Unlocked(p)) = Len(lock)
         /\ \A i \in DOMAIN lock : Unlocked(p)[i] = IF lock[i] = p THEN NoProc ELSE lock[i]
<1> DEFINE L == Procs \cup {NoProc}
<1>1. DOMAIN lock = 1 .. Len(lock) /\ Len(lock) \in Nat /\ \A i \in 1 .. Len(lock) : lock[i] \in L
  OBVIOUS
<1>2. NoProc \in L
  OBVIOUS
<1> HIDE DEF L
<1>3. Unlocked(p) \in [1 .. Len(lock) -> L]
  BY <1>1, <1>2 DEF Unlocked
<1>4. Unlocked(p) \in Seq(L) /\ Len(Unlocked(p)) = Len(lock)
  BY <1>1, <1>3
<1>5. \A i \in DOMAIN lock : Unlocked(p)[i] = IF lock[i] = p THEN NoProc ELSE lock[i]
  BY DEF Unlocked
<1> QED
  BY <1>4, <1>5 DEF L

\* A file that changes stays a file, and the others stay what they are.
LEMMA FileChanged ==
  ASSUME NEW i \in DOMAIN files, files \in Seq(FileType), NEW f \in FileType
  PROVE  /\ [files EXCEPT ![i] = f] \in Seq(FileType)
         /\ DOMAIN [files EXCEPT ![i] = f] = DOMAIN files
         /\ Len([files EXCEPT ![i] = f]) = Len(files)
         /\ [files EXCEPT ![i] = f][i] = f
BY DEF FileType

\* A new session is typed.
LEMMA InitTypes == Init => Types
<1> SUFFICES ASSUME Init
             PROVE  Types
  OBVIOUS
<1>1. files = <<[lines |-> <<>>, torn |-> FALSE]>> /\ path = 1 /\ lock = <<NoProc>>
  BY DEF Init
<1>2. [lines |-> <<>>, torn |-> FALSE] \in FileType
  BY DEF FileType
<1>3. FilesTyped
  <2> HIDE DEF FileType
  <2> QED
    BY <1>1, <1>2 DEF FilesTyped
<1>4. LockTyped
  BY <1>1 DEF LockTyped
<1>5. proc \in [Procs -> ProcType] /\ InodesExist
  BY ClosedIsProc DEF Init, InodesExist, Closed
<1>6. truth \in Memory
  BY EmptyIsMemory DEF Init
<1> QED
  BY <1>3, <1>4, <1>5, <1>6 DEF Types

\* A process that changes stays a process.
LEMMA ProcChanged ==
  ASSUME proc \in [Procs -> ProcType], InodesExist, DOMAIN files \subseteq DOMAIN files',
         NEW p \in Procs, NEW x \in ProcType, proc' = [proc EXCEPT ![p] = x],
         x.pc # "closed" => x.inode \in DOMAIN files'
  PROVE  proc' \in [Procs -> ProcType] /\ InodesExist'
<1>1. proc' \in [Procs -> ProcType]
  OBVIOUS
<1>2. \A q \in Procs : proc'[q] = IF q = p THEN x ELSE proc[q]
  OBVIOUS
<1>3. ASSUME NEW q \in Procs, proc'[q].pc # "closed"
      PROVE  proc'[q].inode \in DOMAIN files'
  <2>1. CASE q = p
    BY <1>2, <1>3, <2>1
  <2>2. CASE q # p
    BY <1>2, <1>3, <2>2 DEF InodesExist
  <2> QED
    BY <2>1, <2>2
<1> QED
  BY <1>1, <1>3 DEF InodesExist

\* Every step keeps the types, action by action.
LEMMA NextTypes == Types /\ [Next]_vars => Types'
<1> SUFFICES ASSUME Types, [Next]_vars
             PROVE  Types'
  OBVIOUS
<1>1. /\ files \in Seq(FileType) /\ path \in DOMAIN files /\ DOMAIN files = 1 .. Len(files)
      /\ Len(files) \in Nat
      /\ lock \in Seq(Procs \cup {NoProc}) /\ Len(lock) = Len(files) /\ DOMAIN lock = 1 .. Len(lock)
      /\ proc \in [Procs -> ProcType] /\ truth \in Memory
      /\ \A p \in Procs : proc[p].pc # "closed" => proc[p].inode \in DOMAIN files
  BY DEF Types, FilesTyped, LockTyped, InodesExist
<1>2. \A i \in DOMAIN files : files[i] \in FileType
  BY <1>1
<1>3. \A i \in DOMAIN files : files[i].lines \in Seq(Seq(Legal)) /\ files[i].torn \in BOOLEAN
  BY <1>2 DEF FileType
<1>4. \A p \in Procs : proc[p] \in ProcType /\ proc[p].mem \in Memory /\ proc[p].inode \in Nat
  BY <1>1 DEF ProcType
<1>5. \A p \in Procs : proc[p] =
        [pc |-> proc[p].pc, inode |-> proc[p].inode, mem |-> proc[p].mem]
  BY <1>1 DEF ProcType
<1>6. \A p : Unlocked(p) \in Seq(Procs \cup {NoProc}) /\ Len(Unlocked(p)) = Len(lock)
  BY <1>1, UnlockedTyped
<1>7. \A i \in DOMAIN lock : \A p \in Procs :
        /\ [lock EXCEPT ![i] = p] \in Seq(Procs \cup {NoProc}) /\ Len([lock EXCEPT ![i] = p]) = Len(lock)
        /\ [Unlocked(p) EXCEPT ![i] = p] \in Seq(Procs \cup {NoProc})
        /\ Len([Unlocked(p) EXCEPT ![i] = p]) = Len(lock)
  BY <1>1, <1>6
<1> DEFINE ProcOK == proc' \in [Procs -> ProcType] /\ InodesExist'
<1>8. ASSUME NEW p \in Procs, proc' = [proc EXCEPT ![p] = Closed], DOMAIN files \subseteq DOMAIN files'
      PROVE  ProcOK
  <2>1. Closed.pc = "closed"
    BY DEF Closed
  <2> QED
    BY <1>8, <2>1, ClosedIsProc, ProcChanged DEF Types
<1>9. ASSUME NEW p \in Procs, OpenFile(p)
      PROVE  Types'
  <2>1. UNCHANGED <<path, files, lock, truth>> /\ path \in Nat
    BY <1>1, <1>9 DEF OpenFile
  <2> DEFINE x == [proc[p] EXCEPT !.pc = "opened", !.inode = path]
  <2>2. x \in ProcType /\ x.inode = path
    BY <1>4, <2>1 DEF ProcType
  <2>3. proc' = [proc EXCEPT ![p] = x]
    BY <1>9 DEF OpenFile
  <2> HIDE DEF x
  <2>4. ProcOK
    BY <1>1, <2>1, <2>2, <2>3, ProcChanged DEF Types
  <2> QED
    BY <1>1, <2>1, <2>4 DEF Types, FilesTyped, LockTyped
<1>10. ASSUME NEW p \in Procs, TryLock(p)
       PROVE  Types'
  <2>1. UNCHANGED <<path, files, truth>> /\ proc[p].inode \in DOMAIN files
    BY <1>1, <1>10 DEF TryLock, At
  <2>2. \/ lock' = [lock EXCEPT ![proc[p].inode] = p] /\ proc' = [proc EXCEPT ![p].pc = "locked"]
        \/ lock' = lock /\ proc' = [proc EXCEPT ![p] = Closed]
    BY <1>10 DEF TryLock
  <2>3. lock' \in Seq(Procs \cup {NoProc}) /\ Len(lock') = Len(lock)
    <3> DEFINE i == proc[p].inode
    <3>1. /\ [lock EXCEPT ![i] = p] \in Seq(Procs \cup {NoProc})
          /\ Len([lock EXCEPT ![i] = p]) = Len(lock)
      <4>1. i \in DOMAIN lock
        BY <1>1, <2>1
      <4> HIDE DEF i
      <4> QED
        BY <1>7, <4>1
    <3> HIDE DEF i
    <3> QED
      BY <1>1, <2>2, <3>1 DEF i
  <2>4. ProcOK
    <3> DEFINE x == [proc[p] EXCEPT !.pc = "locked"]
    <3>1. x \in ProcType /\ x.inode = proc[p].inode
      BY <1>4 DEF ProcType
    <3>2. proc' = [proc EXCEPT ![p] = x] \/ proc' = [proc EXCEPT ![p] = Closed]
      BY <2>2
    <3> HIDE DEF x
    <3>3. CASE proc' = [proc EXCEPT ![p] = x]
      BY <1>1, <2>1, <3>1, <3>3, ProcChanged DEF Types
    <3> QED
      BY <1>8, <2>1, <3>2, <3>3
  <2> QED
    BY <1>1, <2>1, <2>3, <2>4 DEF Types, FilesTyped, LockTyped
<1>11. ASSUME NEW p \in Procs, ReadLines(p)
       PROVE  Types'
  <2> DEFINE m == Replay(files[path].lines)
             nf == [files EXCEPT ![proc[p].inode].torn = FALSE]
  <2>1. UNCHANGED <<path, truth>> /\ proc[p].inode \in DOMAIN files
    BY <1>1, <1>11 DEF ReadLines, At
  <2>2. m \in Memory
    BY <1>1, <1>3, ReplayFolded
  <2>3. nf \in Seq(FileType) /\ DOMAIN nf = DOMAIN files /\ Len(nf) = Len(files)
    <3> DEFINE f == [files[proc[p].inode] EXCEPT !.torn = FALSE]
    <3>1. f \in FileType
      BY <1>2, <2>1 DEF FileType
    <3> DEFINE i == proc[p].inode
    <3>2. nf = [files EXCEPT ![i] = f] /\ i \in DOMAIN files
      BY <2>1
    <3> HIDE DEF f, i, nf
    <3> QED
      BY <1>1, <3>1, <3>2, FileChanged
  <2> DEFINE pc == IF NeedsCompaction(files[path].lines) THEN "compacting" ELSE "open"
             x == [proc[p] EXCEPT !.mem = m, !.pc = pc]
  <2>4. x \in ProcType /\ x.inode = proc[p].inode
    BY <1>4, <2>2 DEF ProcType
  <2>5. \/ proc' = [proc EXCEPT ![p] = x] /\ files' = nf /\ lock' = lock
        \/ proc' = [proc EXCEPT ![p] = Closed] /\ files' = files /\ lock' = Unlocked(p)
    BY <1>11 DEF ReadLines
  <2> HIDE DEF x, nf
  <2>6. /\ files' \in Seq(FileType) /\ DOMAIN files' = DOMAIN files /\ Len(files') = Len(files)
        /\ lock' \in Seq(Procs \cup {NoProc}) /\ Len(lock') = Len(lock)
    BY <1>1, <1>6, <2>3, <2>5
  <2>7. ProcOK
    <3>1. CASE proc' = [proc EXCEPT ![p] = x]
      BY <1>1, <2>1, <2>4, <2>6, <3>1, ProcChanged DEF Types
    <3> QED
      BY <1>8, <2>5, <2>6, <3>1
  <2> QED
    BY <1>1, <2>1, <2>6, <2>7 DEF Types, FilesTyped, LockTyped
<1>12. ASSUME NEW p \in Procs, CompactRename(p)
       PROVE  Types'
  <2> DEFINE f == [lines |-> Compacted(proc[p].mem), torn |-> FALSE]
  <2>1. f \in FileType
    <3>1. Compacted(proc[p].mem) \in Seq(Seq(Dated(proc[p].mem.seq)))
      BY <1>4, RewriteKeeps
    <3>2. Seq(Dated(proc[p].mem.seq)) \subseteq Seq(Legal)
      BY DEF Dated
    <3>3. Compacted(proc[p].mem) \in Seq(Seq(Legal))
      BY <3>1, <3>2
    <3> QED
      BY <3>3 DEF FileType
  <2>2. /\ files' = Append(files, f) /\ lock' = Append(lock, NoProc) /\ path' = Len(files) + 1
        /\ proc' = [proc EXCEPT ![p].pc = "renamed"] /\ truth' = truth
        /\ proc[p].inode \in DOMAIN files
    BY <1>1, <1>12 DEF CompactRename, At
  <2> HIDE DEF f
  <2>3. files' \in Seq(FileType) /\ Len(files') = Len(files) + 1 /\ DOMAIN files' = 1 .. Len(files) + 1
    BY <1>1, <2>1, <2>2
  <2>4. lock' \in Seq(Procs \cup {NoProc}) /\ Len(lock') = Len(lock) + 1
    BY <1>1, <2>2
  <2>5. path' \in DOMAIN files' /\ DOMAIN files \subseteq DOMAIN files'
    BY <1>1, <2>2, <2>3
  <2> DEFINE x == [proc[p] EXCEPT !.pc = "renamed"]
  <2>6. x \in ProcType /\ x.inode = proc[p].inode /\ proc' = [proc EXCEPT ![p] = x]
    BY <1>4, <2>2 DEF ProcType
  <2> HIDE DEF x
  <2>7. ProcOK
    BY <1>1, <2>2, <2>5, <2>6, ProcChanged DEF Types
  <2> QED
    BY <1>1, <2>2, <2>3, <2>4, <2>5, <2>7 DEF Types, FilesTyped, LockTyped
<1>13. ASSUME NEW p \in Procs, CompactLock(p)
       PROVE  Types'
  <2> DEFINE x == [proc[p] EXCEPT !.pc = "open", !.inode = path]
  <2>1. UNCHANGED <<path, files, truth>> /\ path \in Nat
    BY <1>1, <1>13 DEF CompactLock
  <2>2. x \in ProcType /\ x.inode = path
    BY <1>4, <2>1 DEF ProcType
  <2>3. \/ proc' = [proc EXCEPT ![p] = x] /\ lock' = [Unlocked(p) EXCEPT ![path] = p]
        \/ proc' = [proc EXCEPT ![p] = Closed] /\ lock' = Unlocked(p)
    BY <1>13 DEF CompactLock
  <2> HIDE DEF x
  <2>4. lock' \in Seq(Procs \cup {NoProc}) /\ Len(lock') = Len(lock)
    <3> DEFINE l == [Unlocked(p) EXCEPT ![path] = p]
    <3>1. path \in DOMAIN lock
      BY <1>1
    <3>2. l \in Seq(Procs \cup {NoProc}) /\ Len(l) = Len(lock)
      BY <1>7, <3>1
    <3>3. lock' = l \/ lock' = Unlocked(p)
      BY <2>3
    <3> HIDE DEF l
    <3> QED
      BY <1>6, <3>2, <3>3
  <2>5. ProcOK
    <3>1. CASE proc' = [proc EXCEPT ![p] = x]
      BY <1>1, <2>1, <2>2, <3>1, ProcChanged DEF Types
    <3> QED
      BY <1>8, <2>1, <2>3, <3>1
  <2> QED
    BY <1>1, <2>1, <2>4, <2>5 DEF Types, FilesTyped, LockTyped
<1>14. ASSUME NEW p \in Procs, NEW tx \in Transactions, Commit(p, tx)
       PROVE  Types'
  <2> DEFINE line == Numbered(tx, proc[p].mem.seq)
             i == proc[p].inode
             f == [files[i] EXCEPT !.lines = Append(@, line)]
             x == [proc[p] EXCEPT !.mem = FoldLeft(Apply, @, line)]
  <2>1. /\ files' = [files EXCEPT ![i].lines = Append(@, line)]
        /\ proc' = [proc EXCEPT ![p].mem = FoldLeft(Apply, @, line)]
        /\ truth' = FoldLeft(Apply, truth, line) /\ UNCHANGED <<path, lock>>
        /\ i \in DOMAIN files
    BY <1>1, <1>14 DEF Commit, At
  <2>2. line \in Seq(Legal)
    <3>1. proc[p].mem.seq \in Nat
      BY <1>4 DEF Memory, MemoryType
    <3> QED
      BY <3>1, NumberedIsLegal
  <2>3. f \in FileType
    <3>1. Append(files[i].lines, line) \in Seq(Seq(Legal))
      BY <1>3, <2>1, <2>2
    <3> HIDE DEF line
    <3> QED
      BY <1>2, <2>1, <3>1 DEF FileType
  <2>4. x \in ProcType /\ x.inode = i
    <3>1. FoldLeft(Apply, proc[p].mem, line) \in Memory
      BY <1>4, <2>2, ApplyFolded, FoldedIsMemory
    <3> HIDE DEF line
    <3> QED
      BY <1>4, <3>1 DEF ProcType
  <2>5. truth' \in Memory
    BY <1>1, <2>1, <2>2, ApplyFolded, FoldedIsMemory
  <2>6. files' = [files EXCEPT ![i] = f] /\ proc' = [proc EXCEPT ![p] = x]
    BY <2>1
  <2> HIDE DEF line, f, x
  <2>7. files' \in Seq(FileType) /\ DOMAIN files' = DOMAIN files /\ Len(files') = Len(files)
    BY <1>1, <2>1, <2>3, <2>6, FileChanged
  <2>8. ProcOK
    BY <1>1, <2>1, <2>4, <2>6, <2>7, ProcChanged DEF Types
  <2> QED
    BY <1>1, <2>1, <2>5, <2>7, <2>8 DEF Types, FilesTyped, LockTyped
<1>15. ASSUME NEW p \in Procs, Close(p)
       PROVE  Types'
  <2>1. /\ UNCHANGED <<path, files, truth>> /\ lock' = Unlocked(p)
        /\ proc' = [proc EXCEPT ![p] = Closed]
    BY <1>15 DEF Close
  <2>2. ProcOK
    BY <1>8, <2>1
  <2> QED
    BY <1>1, <1>6, <2>1, <2>2 DEF Types, FilesTyped, LockTyped
<1>16. ASSUME NEW p \in Procs, Tear(p)
       PROVE  Types'
  <2> DEFINE i == proc[p].inode
             f == [files[i] EXCEPT !.torn = TRUE]
  <2>1. /\ UNCHANGED <<path, truth>> /\ lock' = Unlocked(p) /\ i \in DOMAIN files
        /\ proc' = [proc EXCEPT ![p] = Closed] /\ files' = [files EXCEPT ![i].torn = TRUE]
    BY <1>1, <1>16 DEF Tear, At
  <2>2. f \in FileType
    BY <1>2, <2>1 DEF FileType
  <2>3. files' = [files EXCEPT ![i] = f]
    BY <2>1
  <2> HIDE DEF f
  <2>4. files' \in Seq(FileType) /\ DOMAIN files' = DOMAIN files /\ Len(files') = Len(files)
    BY <1>1, <2>1, <2>2, <2>3, FileChanged
  <2>5. ProcOK
    BY <1>8, <2>1, <2>4
  <2> QED
    BY <1>1, <1>6, <2>1, <2>4, <2>5 DEF Types, FilesTyped, LockTyped
<1>17. CASE UNCHANGED vars
  BY <1>1, <1>17 DEF vars, Types, FilesTyped, LockTyped, InodesExist
<1> QED
  BY <1>9, <1>10, <1>11, <1>12, <1>13, <1>14, <1>15, <1>16, <1>17 DEF Next

\* The state is typed: the lines of a file are lines of legal writes, and no
\* map of an open session is newer than its counter, whatever processes do.
THEOREM JsonlTypes == Spec => []Types
BY InitTypes, NextTypes, PTL DEF Spec

(***************************************************************************)
(* Dead writes.                                                            *)
(***************************************************************************)

\* What a write does to the set of registers that are set.
LEMMA ApplyLive ==
  ASSUME NEW m \in Memory, NEW w \in Legal
  PROVE  /\ w.kind = "set" => Live(Apply(m, w)) = Live(m) \cup {w.key}
         /\ w.kind = "delete" => Live(Apply(m, w)) = Live(m) \ {w.key}
         /\ ~IsRegister(w) => Live(Apply(m, w)) = Live(m)
<1>1. m \in MemoryType /\ m.regs \in [Keys -> Nat] /\ w.kind \in Kinds
  BY DEF Memory, MemoryType, Legal
<1>2. ASSUME w.kind = "set"
      PROVE  Live(Apply(m, w)) = Live(m) \cup {w.key}
  <2>1. w.seq # 0 /\ w.key \in Keys
    BY <1>2 DEF Legal, IsRegister
  <2>2. Apply(m, w).regs = [m.regs EXCEPT ![w.key] = w.seq]
    BY <1>1, <1>2 DEF Apply, MemoryType
  <2> QED
    BY <1>1, <2>1, <2>2 DEF Live
<1>3. ASSUME w.kind = "delete"
      PROVE  Live(Apply(m, w)) = Live(m) \ {w.key}
  <2>1. w.key \in Keys
    BY <1>3 DEF Legal, IsRegister
  <2>2. Apply(m, w).regs = [m.regs EXCEPT ![w.key] = 0]
    BY <1>1, <1>3 DEF Apply, MemoryType
  <2> QED
    BY <1>1, <2>1, <2>2 DEF Live
<1>4. ASSUME ~IsRegister(w)
      PROVE  Live(Apply(m, w)) = Live(m)
  <2>1. w.kind = "entry" \/ w.kind = "usage"
    BY <1>1, <1>4 DEF IsRegister, Kinds
  <2>2. Apply(m, w).regs = m.regs
    BY <1>1, <2>1 DEF Apply, MemoryType
  <2> QED
    BY <2>2 DEF Live
<1> QED
  BY <1>2, <1>3, <1>4

RegisterWrites(ws, i) == {j \in 1 .. i : IsRegister(ws[j])}

\* The registers that are set are finitely many, and so are the writes.
LEMMA LiveFinite ==
  ASSUME NEW m
  PROVE  IsFiniteSet(Live(m)) /\ Cardinality(Live(m)) \in Nat
<1>1. IsFiniteSet(Keys)
  BY KeyCountAssumption, FS_Interval DEF Keys
<1>2. IsFiniteSet(Live(m))
  BY <1>1, FS_Subset DEF Live
<1> QED
  BY <1>2, FS_CardinalityType

\* The register writes up to a position grow by those that are one.
LEMMA RegisterWritesGrow ==
  ASSUME NEW ws, NEW i \in Nat
  PROVE  /\ Cardinality(RegisterWrites(ws, i)) \in Nat
         /\ IsRegister(ws[i + 1]) =>
              Cardinality(RegisterWrites(ws, i + 1)) = Cardinality(RegisterWrites(ws, i)) + 1
         /\ ~IsRegister(ws[i + 1]) => RegisterWrites(ws, i + 1) = RegisterWrites(ws, i)
<1>1. IsFiniteSet(RegisterWrites(ws, i))
  <2>1. IsFiniteSet(1 .. i)
    BY FS_Interval
  <2> QED
    BY <2>1, FS_Subset DEF RegisterWrites
<1>2. Cardinality(RegisterWrites(ws, i)) \in Nat
  BY <1>1, FS_CardinalityType
<1>3. ASSUME IsRegister(ws[i + 1])
      PROVE  Cardinality(RegisterWrites(ws, i + 1)) = Cardinality(RegisterWrites(ws, i)) + 1
  <2>1. RegisterWrites(ws, i + 1) = RegisterWrites(ws, i) \cup {i + 1}
    BY <1>3 DEF RegisterWrites
  <2>2. i + 1 \notin RegisterWrites(ws, i)
    BY DEF RegisterWrites
  <2> QED
    BY <1>1, <2>1, <2>2, FS_AddElement
<1>4. ASSUME ~IsRegister(ws[i + 1])
      PROVE  RegisterWrites(ws, i + 1) = RegisterWrites(ws, i)
  BY <1>4 DEF RegisterWrites
<1> QED
  BY <1>2, <1>3, <1>4

\* One write keeps the count: what is dead and what is live are the writes.
LEMMA CountStep ==
  ASSUME NEW m \in Memory, NEW w \in Legal, NEW d \in Nat
  PROVE  LET a == [live |-> Live(m), dead |-> d]
             b == Count(a, w)
         IN  /\ b = [live |-> Live(Apply(m, w)), dead |-> b.dead] /\ b.dead \in Nat
             /\ b.dead + Cardinality(Live(Apply(m, w)))
                  = d + Cardinality(Live(m)) + IF IsRegister(w) THEN 1 ELSE 0
<1> DEFINE a == [live |-> Live(m), dead |-> d]
           b == Count(a, w)
           c == Cardinality(Live(m))
<1>1. IsFiniteSet(Live(m)) /\ c \in Nat /\ w.kind \in Kinds
  BY LiveFinite DEF Legal
<1>2. CASE w.kind = "set"
  <2>1. Live(Apply(m, w)) = Live(m) \cup {w.key}
    BY <1>2, ApplyLive
  <2>2. b = [live |-> Live(m) \cup {w.key}, dead |-> d + IF w.key \in Live(m) THEN 1 ELSE 0]
    BY <1>2 DEF Count
  <2>3. Cardinality(Live(m) \cup {w.key}) = IF w.key \in Live(m) THEN c ELSE c + 1
    BY <1>1, FS_AddElement
  <2>4. IsRegister(w)
    BY <1>2 DEF IsRegister
  <2> QED
    BY <1>1, <2>1, <2>2, <2>3, <2>4
<1>3. CASE w.kind = "delete"
  <2>1. Live(Apply(m, w)) = Live(m) \ {w.key}
    BY <1>3, ApplyLive
  <2>2. b = [live |-> Live(m) \ {w.key}, dead |-> d + IF w.key \in Live(m) THEN 2 ELSE 1]
    BY <1>3 DEF Count
  <2>3. Cardinality(Live(m) \ {w.key}) = IF w.key \in Live(m) THEN c - 1 ELSE c
    BY <1>1, FS_RemoveElement
  <2>4. IsRegister(w)
    BY <1>3 DEF IsRegister
  <2>5. b.dead = d + (IF w.key \in Live(m) THEN 2 ELSE 1) /\ b = [live |-> Live(m) \ {w.key}, dead |-> b.dead]
    BY <2>2
  <2> HIDE DEF b, c
  <2>6. b.dead \in Nat /\ b.dead + (IF w.key \in Live(m) THEN c - 1 ELSE c) = d + c + 1
    <3>1. CASE w.key \in Live(m)
      BY <1>1, <2>5, <3>1
    <3>2. CASE w.key \notin Live(m)
      BY <1>1, <2>5, <3>2
    <3> QED
      BY <3>1, <3>2
  <2> QED
    BY <2>1, <2>3, <2>4, <2>5, <2>6 DEF b, c
<1>4. CASE ~IsRegister(w)
  <2>1. Live(Apply(m, w)) = Live(m)
    BY <1>4, ApplyLive
  <2>2. b = a
    BY <1>1, <1>4 DEF Count, Kinds, IsRegister
  <2> QED
    BY <1>1, <1>4, <2>1, <2>2
<1> QED
  BY <1>1, <1>2, <1>3, <1>4 DEF IsRegister, Kinds

\* The count of dead writes is exact for every file of legal lines: the
\* register writes are the dead ones and one for each register that is set.
LEMMA DeadCount ==
  ASSUME NEW lines \in Seq(Seq(Legal))
  PROVE  DeadWrites(lines) + Cardinality(Live(Replay(lines)))
           = Cardinality(RegisterWrites(Writes(lines), Len(Writes(lines))))
<1> DEFINE ws == Writes(lines)
           zero == [live |-> {}, dead |-> 0]
<1>1. /\ ws \in Seq(Legal) /\ Len(ws) \in Nat /\ Replay(lines) = A!Folded(Empty, ws)
      /\ DeadWrites(lines) = C!Folded(zero, ws).dead
  BY ReplayFolded, CountFolded DEF DeadWrites
<1> HIDE DEF ws
<1>2. PICK g : A!Trace(g, Empty, ws)
  BY <1>1, A!FoldTrace
<1>3. PICK h : C!Trace(h, zero, ws)
  BY <1>1, C!FoldTrace
<1>4. A!Folded(Empty, ws) = g[Len(ws)] /\ C!Folded(zero, ws) = h[Len(ws)]
  BY <1>1, <1>2, <1>3, A!FoldTrace, C!FoldTrace
<1> DEFINE Good(i) == /\ g[i] \in Memory
                      /\ h[i] = [live |-> Live(g[i]), dead |-> h[i].dead] /\ h[i].dead \in Nat
                      /\ h[i].dead + Cardinality(Live(g[i])) = Cardinality(RegisterWrites(ws, i))
           U == {i \in 0 .. Len(ws) : Good(i)}
<1>5. Good(0)
  <2>1. g[0] = Empty /\ h[0] = zero
    BY <1>2, <1>3 DEF A!Trace, C!Trace
  <2>2. Live(Empty) = {} /\ RegisterWrites(ws, 0) = {}
    BY DEF Live, Empty, RegisterWrites
  <2>3. Cardinality(Live(Empty)) = 0 /\ Cardinality(RegisterWrites(ws, 0)) = 0
    BY <2>2, FS_EmptySet
  <2>4. h[0] = [live |-> Live(g[0]), dead |-> h[0].dead] /\ h[0].dead = 0
    BY <2>1, <2>2
  <2> QED
    BY <2>1, <2>3, <2>4, EmptyIsMemory
<1>6. ASSUME NEW i \in 0 .. Len(ws), Good(i), i < Len(ws)
      PROVE  Good(i + 1)
  <2>1. i + 1 \in 1 .. Len(ws) /\ i + 1 - 1 = i /\ i \in Nat /\ ws[i + 1] \in Legal
    BY <1>1, <1>6
  <2> DEFINE w == ws[i + 1]
  <2>2. g[i + 1] = Apply(g[i], w) /\ h[i + 1] = Count(h[i], w)
    BY <1>2, <1>3, <2>1 DEF A!Trace, C!Trace
  <2> HIDE DEF w
  <2>3. w \in Legal
    BY <2>1 DEF w
  <2>4. Apply(g[i], w) \in Memory
    BY <1>6, <2>3, ApplyIsMemory
  <2> DEFINE d == h[i].dead
             b == Count([live |-> Live(g[i]), dead |-> d], w)
  <2>5. h[i] = [live |-> Live(g[i]), dead |-> d] /\ d \in Nat
    BY <1>6
  <2>6. h[i + 1] = b
    BY <2>2, <2>5
  <2> HIDE DEF d
  <2>7. /\ b = [live |-> Live(Apply(g[i], w)), dead |-> b.dead] /\ b.dead \in Nat
        /\ b.dead + Cardinality(Live(Apply(g[i], w)))
             = d + Cardinality(Live(g[i])) + IF IsRegister(w) THEN 1 ELSE 0
    BY <1>6, <2>3, <2>5, CountStep
  <2>8. d + Cardinality(Live(g[i])) = Cardinality(RegisterWrites(ws, i))
    BY <1>6 DEF d
  <2>9. Cardinality(RegisterWrites(ws, i + 1))
          = Cardinality(RegisterWrites(ws, i)) + IF IsRegister(w) THEN 1 ELSE 0
    BY <2>1, RegisterWritesGrow DEF w
  <2> HIDE DEF b
  <2> QED
    BY <2>2, <2>4, <2>6, <2>7, <2>8, <2>9
<1> HIDE DEF Good
<1>7. 0 .. Len(ws) \subseteq U
  <2>1. 0 \in U
    BY <1>1, <1>5
  <2>2. \A i \in 0 .. Len(ws) : i \in U /\ i < Len(ws) => i + 1 \in U
    BY <1>1, <1>6
  <2> HIDE DEF U
  <2> QED
    BY <1>1, <2>1, <2>2, A!UpTo
<1>8. Good(Len(ws))
  BY <1>1, <1>7
<1> QED
  BY <1>1, <1>4, <1>8 DEF Good, ws

\* What is neither set nor deleted counts for nothing.
LEMMA CountOthers ==
  ASSUME NEW base, NEW ws \in Seq({w \in Legal : ~IsRegister(w)})
  PROVE  C!Folded(base, ws) = base
<1> DEFINE S == {w \in Legal : ~IsRegister(w)}
<1>1. \A m \in {base} : \A w \in S : Count(m, w) \in {base}
  BY DEF Count, IsRegister, Legal, Kinds
<1>2. C!Folded(base, ws) \in {base}
  <2>1. ws \in Seq(S) /\ base \in {base}
    OBVIOUS
  <2> HIDE DEF S
  <2> QED
    BY <1>1, <2>1, C!FoldIn
<1> QED
  BY <1>2

\* In the rewritten registers every key is set once.
LEMMA CountRegisters ==
  ASSUME NEW mem \in Memory, NEW base, base = [live |-> {}, dead |-> 0]
  PROVE  C!Folded(base, Writes(RegisterLines(mem))).dead = 0
<1> DEFINE F == [k \in Keys |-> OfKey(mem, k)]
           Upto(i, c) == c = [live |-> c.live, dead |-> 0] /\ c.live \subseteq 1 .. i
           T == {t \in Nat \X Seq(Seq(Legal)) : Upto(t[1], C!Folded(base, Writes(t[2])))}
<1>1. KeyCount \in Nat
  BY KeyCountAssumption
<1>2. ASSUME NEW k \in Keys, k \in Live(mem)
      PROVE  [seq |-> mem.regs[k], kind |-> "set", key |-> k] \in Legal
  <2>1. mem.regs \in [Keys -> Nat]
    BY DEF Memory, MemoryType
  <2>2. mem.regs[k] # 0 /\ k \in 0 .. KeyCount /\ mem.regs[k] \in Nat
    BY <1>1, <1>2, <2>1 DEF Live, Keys
  <2> QED
    BY <2>2 DEF Legal, Kinds, IsRegister
<1>3. ASSUME NEW k \in Keys
      PROVE  OfKey(mem, k) \in Seq(Seq(Legal))
  <2>1. CASE k \in Live(mem)
    <3>1. <<[seq |-> mem.regs[k], kind |-> "set", key |-> k]>> \in Seq(Legal)
      BY <1>2, <2>1
    <3>2. OfKey(mem, k) = <<Line("set", k, mem.regs[k])>>
      BY <2>1 DEF OfKey
    <3> QED
      BY <3>1, <3>2 DEF Line
  <2>2. CASE k \notin Live(mem)
    BY <2>2 DEF OfKey
  <2> QED
    BY <2>1, <2>2
<1>4. F \in Seq(Seq(Seq(Legal))) /\ Len(F) = KeyCount
  <2>1. F \in [1 .. KeyCount -> Seq(Seq(Legal))]
    BY <1>3 DEF Keys
  <2> HIDE DEF F
  <2> QED
    BY <1>1, <2>1
<1>5. RegisterLines(mem) = Writes(F)
  BY DEF RegisterLines, Writes, OfKey
<1>6. \A i \in 1 .. Len(F) : i \in Keys /\ i \in Nat /\ F[i] = OfKey(mem, i)
  <2>1. \A i \in 1 .. Len(F) : i \in Keys /\ i \in Nat
    <3> HIDE DEF F
    <3> QED
      BY <1>4 DEF Keys
  <2>2. \A k \in Keys : F[k] = OfKey(mem, k)
    OBVIOUS
  <2> HIDE DEF F
  <2> QED
    BY <2>1, <2>2
<1> HIDE DEF F
<1>7. <<0, <<>>>> \in T
  <2>1. Writes(<<>>) = <<>>
    BY DEF Writes, FlattenSeq
  <2>2. C!Folded(base, Writes(<<>>)) = base
    BY <2>1, C!FoldEmpty
  <2>3. Upto(0, base)
    OBVIOUS
  <2>4. <<>> \in Seq(Seq(Legal))
    OBVIOUS
  <2> HIDE DEF Upto
  <2> QED
    BY <2>2, <2>3, <2>4
<1>8. ASSUME NEW i \in 1 .. Len(F), NEW ls, <<i - 1, ls>> \in T
      PROVE  <<i, Joined(ls, F[i])>> \in T
  <2> DEFINE c == C!Folded(base, Writes(ls))
  <2>1. ls \in Seq(Seq(Legal)) /\ Upto(i - 1, c) /\ Writes(ls) \in Seq(Legal)
    <3>1. ls \in Seq(Seq(Legal)) /\ Upto(i - 1, c)
      BY <1>8
    <3> QED
      BY <3>1, WritesIn
  <2>2. i \in Keys /\ i \in Nat /\ F[i] = OfKey(mem, i)
    BY <1>6
  <2>3. CASE i \in Live(mem)
    <3> DEFINE w == [seq |-> mem.regs[i], kind |-> "set", key |-> i]
    <3>1. w \in Legal /\ <<w>> \in Seq(Legal)
      BY <1>2, <2>2, <2>3
    <3>2. Joined(ls, F[i]) = Append(ls, <<w>>)
      <4>1. F[i] = <<<<w>>>>
        BY <2>2, <2>3 DEF OfKey, Line
      <4>2. ls \o <<<<w>>>> = Append(ls, <<w>>)
        BY <2>1
      <4> QED
        BY <4>1, <4>2 DEF Joined
    <3>3. Append(ls, <<w>>) \in Seq(Seq(Legal))
      BY <2>1, <3>1
    <3>4. C!Folded(base, Writes(Append(ls, <<w>>))) = Count(c, w)
      <4>1. Writes(Append(ls, <<w>>)) = Writes(ls) \o <<w>>
        BY <2>1, <3>1, WritesAppend
      <4>2. C!Folded(base, Writes(ls) \o <<w>>) = C!Folded(c, <<w>>)
        BY <2>1, <3>1, C!FoldConcat
      <4> QED
        BY <4>1, <4>2, C!FoldOne
    <3>5. Upto(i, Count(c, w))
      <4>1. w.kind = "set" /\ w.key = i
        OBVIOUS
      <4> HIDE DEF c, w
      <4>2. Count(c, w) = [live |-> c.live \cup {i}, dead |-> c.dead + IF i \in c.live THEN 1 ELSE 0]
        BY <4>1 DEF Count
      <4>3. c.dead = 0 /\ c.live \subseteq 1 .. i - 1
        BY <2>1
      <4>4. i \notin c.live
        BY <2>2, <4>3
      <4>5. c.live \cup {i} \subseteq 1 .. i
        BY <2>2, <4>3
      <4>6. Count(c, w) = [live |-> c.live \cup {i}, dead |-> 0]
        BY <4>2, <4>3, <4>4
      <4> QED
        BY <4>5, <4>6
    <3> HIDE DEF Upto, w
    <3> QED
      BY <2>2, <3>2, <3>3, <3>4, <3>5
  <2>4. CASE i \notin Live(mem)
    <3>1. Joined(ls, F[i]) = ls
      <4>1. F[i] = <<>>
        BY <2>2, <2>4 DEF OfKey
      <4>2. ls \o <<>> = ls
        BY <2>1
      <4> QED
        BY <4>1, <4>2 DEF Joined
    <3>2. Upto(i, c)
      <4> HIDE DEF c
      <4>1. 1 .. i - 1 \subseteq 1 .. i
        BY <2>2
      <4> QED
        BY <2>1, <4>1
    <3> HIDE DEF Upto
    <3> QED
      BY <2>1, <2>2, <3>1, <3>2
  <2> QED
    BY <2>3, <2>4
<1> HIDE DEF T
<1>9. <<Len(F), J!Folded(<<>>, F)>> \in T
  BY <1>4, <1>7, <1>8, J!FoldSteps
<1>10. <<KeyCount, RegisterLines(mem)>> \in T
  BY <1>4, <1>5, <1>9, WritesFolded
<1> QED
  BY <1>10 DEF T

\* A rewritten file has no dead write in it, so the next process to open it
\* does not rewrite it again (compact_file, open).
THEOREM RewriteOnce ==
  ASSUME NEW mem \in Memory
  PROVE  DeadWrites(Compacted(mem)) = 0 /\ ~NeedsCompaction(Compacted(mem))
<1> DEFINE S == {w \in Legal : ~IsRegister(w)}
           zero == [live |-> {}, dead |-> 0]
           ews == EntryWrites(mem.entries)
           uws == UsageWrites(mem.usage)
           rws == Writes(RegisterLines(mem))
<1>1. mem \in MemoryType /\ mem.entries \in Seq(Nat) /\ mem.usage \in Seq(Nat)
  BY DEF Memory, MemoryType
<1>2. ASSUME NEW s \in Seq(Nat)
      PROVE  EntryWrites(s) \in Seq(S) /\ UsageWrites(s) \in Seq(S)
  <2>1. DOMAIN s = 1 .. Len(s) /\ Len(s) \in Nat /\ \A i \in 1 .. Len(s) : s[i] \in Nat
    OBVIOUS
  <2>2. \A i \in 1 .. Len(s) : /\ [seq |-> s[i], kind |-> "entry", key |-> 0] \in S
                               /\ [seq |-> s[i], kind |-> "usage", key |-> 0] \in S
    BY <2>1, KeyCountAssumption DEF Legal, Kinds, IsRegister
  <2> HIDE DEF S
  <2>3. EntryWrites(s) \in [1 .. Len(s) -> S]
    BY <2>1, <2>2 DEF EntryWrites
  <2>4. UsageWrites(s) \in [1 .. Len(s) -> S]
    BY <2>1, <2>2 DEF UsageWrites
  <2> DEFINE n == Len(s)
  <2>5. n \in Nat /\ \A f \in [1 .. n -> S] : f \in Seq(S)
    <3>1. n \in Nat
      BY <2>1
    <3> HIDE DEF n
    <3> QED
      BY <3>1
  <2> QED
    BY <2>3, <2>4, <2>5
<1>3. ews \in Seq(S) /\ uws \in Seq(S) /\ ews \in Seq(Legal) /\ uws \in Seq(Legal)
  <2>1. Seq(S) \subseteq Seq(Legal)
    OBVIOUS
  <2> HIDE DEF S
  <2> QED
    BY <1>1, <1>2, <2>1
<1>4. Writes(Compacted(mem)) = (ews \o uws) \o rws /\ rws \in Seq(Legal)
  <2>1. Seq(Dated(mem.seq)) \subseteq Seq(Legal)
    BY DEF Dated
  <2> QED
    BY <2>1, RewriteKeeps
<1>5. DeadWrites(Compacted(mem)) = C!Folded(zero, Writes(Compacted(mem))).dead
  BY CountFolded DEF DeadWrites
<1>6. C!Folded(zero, (ews \o uws) \o rws) = C!Folded(zero, rws)
  <2> HIDE DEF zero, ews, uws, rws
  <2>1. ews \o uws \in Seq(Legal)
    BY <1>3
  <2>2. C!Folded(zero, (ews \o uws) \o rws) = C!Folded(C!Folded(zero, ews \o uws), rws)
    BY <1>4, <2>1, C!FoldConcat
  <2>3. C!Folded(zero, ews \o uws) = C!Folded(C!Folded(zero, ews), uws)
    BY <1>3, C!FoldConcat
  <2>4. C!Folded(zero, ews) = zero /\ C!Folded(zero, uws) = zero
    BY <1>3, CountOthers
  <2> QED
    BY <2>2, <2>3, <2>4
<1>7. C!Folded(zero, rws).dead = 0
  BY CountRegisters
<1>8. DeadWrites(Compacted(mem)) = 0
  <2> HIDE DEF zero, ews, uws, rws
  <2> QED
    BY <1>4, <1>5, <1>6, <1>7
<1>9. Cardinality(Live(Replay(Compacted(mem)))) \in Nat
  BY LiveFinite
<1> QED
  BY <1>8, <1>9 DEF NeedsCompaction

\* What counts as dead is exactly what a rewrite drops, whatever processes
\* do to the file (read_lines, compact_file).
THEOREM DeadWritesCounted == Spec => []DeadWritesExact
<1>1. Types => DeadWritesExact
  <2> SUFFICES ASSUME Types
               PROVE  DeadWritesExact
    OBVIOUS
  <2> DEFINE lines == files[path].lines
  <2>1. lines \in Seq(Seq(Legal))
    <3>1. files[path] \in FileType
      BY DEF Types, FilesTyped
    <3> QED
      BY <3>1 DEF FileType
  <2>2. DOMAIN Writes(lines) = 1 .. Len(Writes(lines))
    BY <2>1, WritesIn
  <2> QED
    BY <2>1, <2>2, DeadCount DEF DeadWritesExact, RegisterWrites
<1> QED
  BY <1>1, JsonlTypes, PTL

(***************************************************************************)
(* The file and what was acknowledged, while one process at a time is past *)
(* the lock of the file the path names.                                    *)
(***************************************************************************)
Past(p) == proc[p].pc \in {"locked", "compacting", "renamed", "open"}
Loaded(p) == proc[p].pc \in {"compacting", "renamed", "open"}

Exclusive ==
  \A p \in Procs : Past(p) =>
    /\ \A q \in Procs : Past(q) => q = p
    /\ proc[p].pc # "renamed" => proc[p].inode = path

Says(lines, state) == Logical(Replay(lines)) = Logical(state)

\* What a process has in memory follows the file to its last line.
Follows(mem, lines, torn, state) ==
  /\ Logical(mem) = Logical(state)
  /\ torn = FALSE
  /\ \A i \in DOMAIN Writes(lines) : Writes(lines)[i].seq <= mem.seq

Truthful ==
  /\ Says(files[path].lines, truth)
  /\ \A p \in Procs : Loaded(p) =>
       Follows(proc[p].mem, files[path].lines, files[path].torn, truth)

\* A line goes behind a file and into memory alike.
LEMMA CommitFollows ==
  ASSUME NEW lines \in Seq(Seq(Legal)), NEW line \in Seq(Legal), NEW state \in Memory,
         NEW mem \in Memory, NEW torn, Says(lines, state), Follows(mem, lines, torn, state)
  PROVE  /\ Says(Append(lines, line), FoldLeft(Apply, state, line))
         /\ Follows(FoldLeft(Apply, mem, line), Append(lines, line), torn, FoldLeft(Apply, state, line))
<1> DEFINE ws == Writes(lines)
           more == Append(lines, line)
           new == A!Folded(mem, line)
<1>1. ws \in Seq(Legal) /\ Replay(lines) \in Memory /\ Replay(lines) = A!Folded(Empty, ws)
  BY ReplayFolded
<1>2. Writes(more) = ws \o line
  BY WritesAppend
<1>3. Replay(more) = A!Folded(Replay(lines), line)
  <2>1. Replay(more) = A!Folded(Empty, ws \o line)
    BY <1>2, ApplyFolded DEF Replay
  <2> QED
    BY <1>1, <2>1, A!FoldConcat
<1>4. Says(more, A!Folded(state, line))
  BY <1>1, <1>3, FoldedLogical DEF Says
<1>5. Logical(new) = Logical(A!Folded(state, line))
  BY FoldedLogical DEF Follows
<1>6. /\ new \in Memory /\ mem.seq <= new.seq
      /\ \A i \in DOMAIN line : line[i].seq <= new.seq
  BY FoldedIsMemory
<1>7. \A i \in DOMAIN ws : ws[i].seq <= mem.seq
  BY DEF Follows
<1> HIDE DEF ws, new, more
<1>8. ASSUME NEW i \in DOMAIN (ws \o line)
      PROVE  (ws \o line)[i].seq <= new.seq
  <2>1. /\ Len(ws) \in Nat /\ Len(line) \in Nat /\ i \in 1 .. Len(ws) + Len(line)
        /\ DOMAIN ws = 1 .. Len(ws) /\ DOMAIN line = 1 .. Len(line)
    BY <1>1, <1>8
  <2>2. CASE i \in DOMAIN ws
    <3>1. (ws \o line)[i] = ws[i] /\ ws[i] \in Legal
      BY <1>1, <2>1, <2>2
    <3>2. ws[i].seq \in Nat /\ mem.seq \in Nat /\ new.seq \in Nat
      BY <1>6, <3>1 DEF Legal, Memory, MemoryType
    <3>3. ws[i].seq <= mem.seq
      BY <1>7, <2>2
    <3> QED
      BY <1>6, <3>1, <3>2, <3>3
  <2>3. CASE i \notin DOMAIN ws
    <3>1. i - Len(ws) \in DOMAIN line /\ (ws \o line)[i] = line[i - Len(ws)]
      BY <1>1, <2>1, <2>3
    <3> QED
      BY <1>6, <3>1
  <2> QED
    BY <2>2, <2>3
<1>9. Follows(new, more, torn, A!Folded(state, line))
  <2>1. torn = FALSE
    BY DEF Follows
  <2> QED
    BY <1>2, <1>5, <1>8, <2>1 DEF Follows
<1> QED
  BY <1>4, <1>9, ApplyFolded DEF new, more

\* An empty file says that nothing was acknowledged.
LEMMA InitTruthful == Init => Truthful
<1> SUFFICES ASSUME Init
             PROVE  Truthful
  OBVIOUS
<1>1. files[path].lines = <<>> /\ truth = Empty
  BY DEF Init
<1>2. Replay(<<>>) = Empty
  <2>1. Writes(<<>>) = <<>>
    BY DEF Writes, FlattenSeq
  <2> QED
    BY <2>1, ApplyFolded, A!FoldEmpty DEF Replay
<1>3. \A p \in Procs : ~Loaded(p)
  BY DEF Init, Loaded, Closed
<1> QED
  BY <1>1, <1>2, <1>3 DEF Truthful, Says

\* What a step keeps when it leaves the lines, the truth and the memories.
LEMMA QuietStep ==
  ASSUME Truthful, path' \in DOMAIN files', files'[path'].lines = files[path].lines, truth' = truth,
         \A p \in Procs : Loaded(p)' =>
            /\ Loaded(p) /\ proc'[p].mem = proc[p].mem
            /\ files'[path'].torn = files[path].torn
  PROVE  Truthful'
<1>1. Says(files'[path'].lines, truth')
  BY DEF Truthful
<1>2. ASSUME NEW p \in Procs, Loaded(p)'
      PROVE  Follows(proc'[p].mem, files'[path'].lines, files'[path'].torn, truth')
  <2>1. Follows(proc[p].mem, files[path].lines, files[path].torn, truth)
    BY <1>2 DEF Truthful
  <2> QED
    BY <1>2, <2>1
<1> QED
  BY <1>1, <1>2 DEF Truthful

\* Every step of a process that is alone keeps file, memory and what was
\* acknowledged the same.
LEMMA NextTruthful == Types /\ Exclusive /\ Truthful /\ [Next]_vars => Truthful'
<1> SUFFICES ASSUME Types, Exclusive, Truthful, [Next]_vars
             PROVE  Truthful'
  OBVIOUS
<1>1. /\ files \in Seq(FileType) /\ path \in DOMAIN files /\ DOMAIN files = 1 .. Len(files)
      /\ Len(files) \in Nat /\ path \in Nat
      /\ proc \in [Procs -> ProcType] /\ truth \in Memory
      /\ \A p \in Procs : proc[p].pc # "closed" => proc[p].inode \in DOMAIN files
  BY DEF Types, FilesTyped, InodesExist
<1>2. \A i \in DOMAIN files : files[i].lines \in Seq(Seq(Legal))
  <2>1. \A i \in DOMAIN files : files[i] \in FileType
    BY <1>1
  <2> QED
    BY <2>1 DEF FileType
<1>3. \A p \in Procs : proc[p].mem \in Memory
  BY <1>1 DEF ProcType
<1>4. ASSUME NEW p \in Procs, OpenFile(p) \/ TryLock(p) \/ CompactLock(p) \/ Close(p)
      PROVE  Truthful'
  <2>1. UNCHANGED <<path, files, truth>>
    BY <1>4 DEF OpenFile, TryLock, CompactLock, Close
  <2>2. \A q \in Procs : Loaded(q)' => Loaded(q) /\ proc'[q].mem = proc[q].mem
    <3>1. \A q \in Procs : q # p => proc'[q] = proc[q]
      BY <1>1, <1>4 DEF OpenFile, TryLock, CompactLock, Close
    <3>2. CASE OpenFile(p)
      <4>1. proc'[p].pc = "opened"
        BY <1>1, <3>2 DEF OpenFile, ProcType
      <4> QED
        BY <3>1, <4>1 DEF Loaded
    <3>3. CASE TryLock(p)
      <4>1. proc'[p].pc = "locked" \/ proc'[p] = Closed
        BY <1>1, <3>3 DEF TryLock, ProcType
      <4> QED
        BY <3>1, <4>1 DEF Loaded, Closed
    <3>4. CASE CompactLock(p)
      <4>1. proc[p].pc = "renamed" /\ (proc'[p].mem = proc[p].mem \/ proc'[p] = Closed)
        BY <1>1, <3>4 DEF CompactLock, At, ProcType
      <4> QED
        BY <3>1, <4>1 DEF Loaded, Closed
    <3>5. CASE Close(p)
      <4>1. proc'[p] = Closed
        BY <1>1, <3>5 DEF Close
      <4> QED
        BY <3>1, <4>1 DEF Loaded, Closed
    <3> QED
      BY <1>4, <3>2, <3>3, <3>4, <3>5
  <2> QED
    BY <1>1, <2>1, <2>2, QuietStep
<1>5. ASSUME NEW p \in Procs, ReadLines(p)
      PROVE  Truthful'
  <2>1. Past(p) /\ proc[p].inode = path /\ \A q \in Procs : Past(q) => q = p
    BY <1>5 DEF ReadLines, At, Past, Exclusive
  <2>2. UNCHANGED <<path, truth>>
    BY <1>5 DEF ReadLines
  <2>3. \A q \in Procs : Loaded(q) => q = p
    BY <2>1 DEF Loaded, Past
  <2>4. CASE Readable(files[path].lines)
    <3> DEFINE lines == files[path].lines
    <3>1. /\ files' = [files EXCEPT ![path].torn = FALSE]
          /\ proc' = [proc EXCEPT ![p].mem = Replay(lines),
                        ![p].pc = IF NeedsCompaction(lines) THEN "compacting" ELSE "open"]
      BY <1>5, <2>1, <2>4 DEF ReadLines
    <3>2. files'[path'].lines = lines /\ files'[path'].torn = FALSE
      <4>1. files[path] \in FileType
        BY <1>1
      <4> QED
        BY <1>1, <2>2, <3>1, <4>1 DEF FileType
    <3>3. \A q \in Procs : q # p => proc'[q] = proc[q]
      BY <1>1, <3>1
    <3>4. proc'[p].mem = Replay(lines)
      BY <1>1, <3>1 DEF ProcType
    <3>5. Says(lines, truth)
      BY DEF Truthful
    <3> HIDE DEF lines
    <3>6. Follows(Replay(lines), lines, FALSE, truth)
      BY <1>1, <1>2, <3>5, ReplayFolded DEF Follows, Says, lines
    <3>7. \A q \in Procs : Loaded(q)' => q = p
      BY <2>3, <3>3 DEF Loaded
    <3> QED
      BY <2>2, <3>2, <3>4, <3>5, <3>6, <3>7 DEF Truthful
  <2>5. CASE ~Readable(files[path].lines)
    <3>1. UNCHANGED files /\ proc' = [proc EXCEPT ![p] = Closed]
      BY <1>5, <2>5 DEF ReadLines
    <3>2. \A q \in Procs : Loaded(q)' => Loaded(q) /\ proc'[q].mem = proc[q].mem
      BY <1>1, <3>1 DEF Loaded, Closed
    <3> QED
      BY <1>1, <2>2, <3>1, <3>2, QuietStep
  <2> QED
    BY <2>4, <2>5
<1>6. ASSUME NEW p \in Procs, CompactRename(p)
      PROVE  Truthful'
  <2> DEFINE m == proc[p].mem
             f == [lines |-> Compacted(m), torn |-> FALSE]
  <2>1. /\ files' = Append(files, f) /\ path' = Len(files) + 1 /\ truth' = truth
        /\ proc' = [proc EXCEPT ![p].pc = "renamed"] /\ Loaded(p)
    BY <1>6 DEF CompactRename, At, Loaded
  <2>2. \A q \in Procs : Loaded(q) => q = p
    BY <2>1 DEF Loaded, Past, Exclusive
  <2>3. files'[path'] = f
    <3> HIDE DEF f
    <3> QED
      BY <1>1, <2>1
  <2>4. Logical(m) = Logical(truth)
    BY <2>1 DEF Truthful, Follows
  <2>5. Compacted(m) \in Seq(Seq(Dated(m.seq))) /\ Logical(Replay(Compacted(m))) = Logical(m)
    BY <1>3, RewriteKeeps
  <2>6. Writes(Compacted(m)) \in Seq(Dated(m.seq))
    BY <2>5, WritesIn
  <2>7. \A i \in DOMAIN Writes(Compacted(m)) : Writes(Compacted(m))[i].seq <= m.seq
    <3> DEFINE ws == Writes(Compacted(m))
               D == Dated(m.seq)
    <3>1. \A i \in DOMAIN ws : ws[i] \in D
      <4> HIDE DEF ws, D
      <4> QED
        BY <2>6 DEF ws, D
    <3> QED
      BY <3>1 DEF Dated
  <2>8. proc'[p].mem = m /\ \A q \in Procs : q # p => proc'[q] = proc[q]
    BY <1>1, <2>1 DEF ProcType
  <2>9. files'[path'].lines = Compacted(m) /\ files'[path'].torn = FALSE
    BY <2>3
  <2> HIDE DEF m, f
  <2>10. Says(Compacted(m), truth) /\ Follows(m, Compacted(m), FALSE, truth)
    BY <2>4, <2>5, <2>7 DEF Says, Follows
  <2>11. \A q \in Procs : Loaded(q)' => q = p
    BY <2>2, <2>8 DEF Loaded
  <2> QED
    BY <2>1, <2>8, <2>10, <2>11, <2>9 DEF Truthful
<1>7. ASSUME NEW p \in Procs, NEW tx \in Transactions, Commit(p, tx)
      PROVE  Truthful'
  <2> DEFINE line == Numbered(tx, proc[p].mem.seq)
             lines == files[path].lines
  <2>1. proc[p].inode = path /\ Loaded(p) /\ \A q \in Procs : Past(q) => q = p
    BY <1>7 DEF Commit, At, Past, Loaded, Exclusive
  <2>2. /\ files' = [files EXCEPT ![path].lines = Append(@, line)]
        /\ proc' = [proc EXCEPT ![p].mem = FoldLeft(Apply, @, line)]
        /\ truth' = FoldLeft(Apply, truth, line) /\ path' = path
    BY <1>7, <2>1 DEF Commit
  <2>3. line \in Seq(Legal)
    <3>1. proc[p].mem.seq \in Nat
      BY <1>3 DEF Memory, MemoryType
    <3> QED
      BY <3>1, NumberedIsLegal
  <2> HIDE DEF line
  <2>4. files'[path'].lines = Append(lines, line) /\ files'[path'].torn = files[path].torn
    <3>1. files[path] \in FileType
      BY <1>1
    <3> QED
      BY <1>1, <2>2, <3>1 DEF FileType
  <2>5. /\ proc'[p].mem = FoldLeft(Apply, proc[p].mem, line)
        /\ \A q \in Procs : q # p => proc'[q] = proc[q]
    BY <1>1, <2>2 DEF ProcType
  <2>6. Says(lines, truth) /\ Follows(proc[p].mem, lines, files[path].torn, truth)
    BY <2>1 DEF Truthful
  <2>7. /\ Says(Append(lines, line), FoldLeft(Apply, truth, line))
        /\ Follows(FoldLeft(Apply, proc[p].mem, line), Append(lines, line),
                   files[path].torn, FoldLeft(Apply, truth, line))
    BY <1>1, <1>2, <1>3, <2>3, <2>6, CommitFollows
  <2>8. \A q \in Procs : Loaded(q)' => q = p
    BY <2>1, <2>5 DEF Loaded, Past
  <2> HIDE DEF lines
  <2> QED
    BY <2>2, <2>4, <2>5, <2>7, <2>8 DEF Truthful
<1>8. ASSUME NEW p \in Procs, Tear(p)
      PROVE  Truthful'
  <2>1. proc[p].inode = path /\ \A q \in Procs : Past(q) => q = p
    BY <1>8 DEF Tear, At, Past, Exclusive
  <2>2. /\ UNCHANGED <<path, truth>> /\ proc' = [proc EXCEPT ![p] = Closed]
        /\ files' = [files EXCEPT ![path].torn = TRUE]
    BY <1>8, <2>1 DEF Tear
  <2>3. files'[path'].lines = files[path].lines /\ path' \in DOMAIN files'
    <3>1. files[path] \in FileType
      BY <1>1
    <3> QED
      BY <1>1, <2>2, <3>1 DEF FileType
  <2>4. \A q \in Procs : ~Loaded(q)'
    BY <1>1, <2>1, <2>2 DEF Loaded, Past, Closed
  <2> QED
    BY <2>2, <2>3, <2>4, QuietStep
<1>9. CASE UNCHANGED vars
  BY <1>1, <1>9, QuietStep DEF vars, Loaded
<1> QED
  BY <1>4, <1>5, <1>6, <1>7, <1>8, <1>9 DEF Next

(***************************************************************************)
(* Who is alone past the lock.                                             *)
(***************************************************************************)
OneProcess == \A p, q \in Procs : p = q

Rewrite == \E p \in Procs : CompactRename(p)

\* What one process does, and what several do to a file nobody rewrites: the
\* file that is open is the one the path names, unless it was just rewritten.
AtPath ==
  \A p \in Procs : proc[p].pc \in {"opened", "locked", "compacting", "open"} => proc[p].inode = path

\* Nothing is open at first.
LEMMA InitAtPath == Init => AtPath
BY DEF Init, AtPath, Closed

\* The path moves only under the process that rewrites, if it is the only one.
LEMMA AtPathKept ==
  ASSUME Types, AtPath, [Next]_vars,
         \A p, q \in Procs : CompactRename(p) => q = p
  PROVE  AtPath'
<1>1. proc \in [Procs -> ProcType]
  BY DEF Types
<1>2. ASSUME NEW p \in Procs, OpenFile(p)
      PROVE  AtPath'
  <2>1. path' = path /\ proc'[p].inode = path /\ \A q \in Procs : q # p => proc'[q] = proc[q]
    BY <1>1, <1>2 DEF OpenFile, ProcType
  <2> QED
    BY <2>1 DEF AtPath
<1>3. ASSUME NEW p \in Procs, TryLock(p) \/ ReadLines(p) \/ Close(p) \/ Tear(p)
      PROVE  AtPath'
  <2>1. path' = path /\ \A q \in Procs : q # p => proc'[q] = proc[q]
    BY <1>1, <1>3 DEF TryLock, ReadLines, Close, Tear
  <2>2. proc'[p] = Closed \/ (proc[p].pc \in {"opened", "locked"} /\ proc'[p].inode = proc[p].inode)
    <3>1. CASE TryLock(p)
      BY <1>1, <3>1 DEF TryLock, At, ProcType
    <3>2. CASE ReadLines(p)
      BY <1>1, <3>2 DEF ReadLines, At, ProcType
    <3>3. CASE Close(p) \/ Tear(p)
      BY <1>1, <3>3 DEF Close, Tear
    <3> QED
      BY <1>3, <3>1, <3>2, <3>3
  <2>3. proc[p].pc \in {"opened", "locked"} => proc[p].inode = path
    BY DEF AtPath
  <2> QED
    BY <2>1, <2>2, <2>3 DEF AtPath, Closed
<1>4. ASSUME NEW p \in Procs, CompactRename(p)
      PROVE  AtPath'
  <2>1. \A q \in Procs : proc'[q].pc = "renamed"
    <3>1. \A q \in Procs : q = p
      BY <1>4
    <3>2. proc'[p].pc = "renamed"
      BY <1>1, <1>4 DEF CompactRename, ProcType
    <3> QED
      BY <3>1, <3>2
  <2> QED
    BY <2>1 DEF AtPath
<1>5. ASSUME NEW p \in Procs, CompactLock(p)
      PROVE  AtPath'
  <2>1. path' = path /\ \A q \in Procs : q # p => proc'[q] = proc[q]
    BY <1>1, <1>5 DEF CompactLock
  <2>2. proc'[p] = Closed \/ proc'[p].inode = path
    BY <1>1, <1>5 DEF CompactLock, ProcType
  <2> QED
    BY <2>1, <2>2 DEF AtPath, Closed
<1>6. ASSUME NEW p \in Procs, NEW tx \in Transactions, Commit(p, tx)
      PROVE  AtPath'
  <2>1. /\ path' = path
        /\ \A q \in Procs : proc'[q].pc = proc[q].pc /\ proc'[q].inode = proc[q].inode
    BY <1>1, <1>6 DEF Commit, ProcType
  <2> QED
    BY <2>1 DEF AtPath
<1>7. CASE UNCHANGED vars
  BY <1>7 DEF vars, AtPath
<1> QED
  BY <1>2, <1>3, <1>4, <1>5, <1>6, <1>7 DEF Next

\* One process that opens and closes, dies and rewrites as it likes is alone.
THEOREM OneIsExclusive ==
  ASSUME OneProcess
  PROVE  Spec => []Exclusive
<1>1. Types /\ AtPath /\ [Next]_vars => AtPath'
  BY AtPathKept DEF OneProcess
<1>2. AtPath => Exclusive
  BY DEF AtPath, Exclusive, Past, OneProcess
<1> QED
  BY <1>1, <1>2, InitAtPath, JsonlTypes, PTL DEF Spec

\* Whoever is past the lock holds the lock of its file.
LocksHeld == \A p \in Procs : Past(p) /\ proc[p].pc # "renamed" => lock[proc[p].inode] = p

NoneRenamed == \A p \in Procs : proc[p].pc # "renamed"

Locked == AtPath /\ LocksHeld /\ NoneRenamed

\* Without a rewrite, a lock is given to one process and kept until it closes.
LEMMA LockedKept ==
  ASSUME Types, Locked, [Next]_vars, ~Rewrite
  PROVE  Locked'
<1>1. /\ proc \in [Procs -> ProcType] /\ lock \in Seq(Procs \cup {NoProc})
      /\ DOMAIN lock = DOMAIN files /\ path \in DOMAIN lock
      /\ \A p \in Procs : proc[p].pc # "closed" => proc[p].inode \in DOMAIN lock
  BY DEF Types, LockTyped, FilesTyped, InodesExist
<1>2. AtPath'
  BY AtPathKept DEF Locked, Rewrite
<1>3. \A p \in Procs : ~CompactRename(p) /\ ~CompactLock(p)
  BY DEF Rewrite, Locked, NoneRenamed, CompactLock, At
<1>4. \A p \in Procs : Past(p) => lock[path] = p /\ proc[p].inode = path
  BY DEF Locked, LocksHeld, AtPath, NoneRenamed, Past
<1>5. \A p : \A i \in DOMAIN lock : Unlocked(p)[i] = IF lock[i] = p THEN NoProc ELSE lock[i]
  BY DEF Unlocked
<1> DEFINE Good == LocksHeld' /\ NoneRenamed'
<1>6. ASSUME NEW p \in Procs, OpenFile(p)
      PROVE  Good
  <2>1. /\ lock' = lock /\ proc'[p].pc = "opened" /\ \A q \in Procs : q # p => proc'[q] = proc[q]
    BY <1>1, <1>6 DEF OpenFile, ProcType
  <2> QED
    BY <2>1 DEF Locked, LocksHeld, NoneRenamed, Past
<1>7. ASSUME NEW p \in Procs, TryLock(p)
      PROVE  Good
  <2>1. \A q \in Procs : q # p => proc'[q] = proc[q]
    BY <1>1, <1>7 DEF TryLock
  <2>2. proc[p].inode = path
    BY <1>7 DEF TryLock, At, Locked, AtPath
  <2>3. \/ lock[path] = NoProc /\ lock' = [lock EXCEPT ![path] = p]
           /\ proc'[p].pc = "locked" /\ proc'[p].inode = path
        \/ lock' = lock /\ proc'[p] = Closed
    BY <1>1, <1>7, <2>2 DEF TryLock, ProcType
  <2>4. CASE lock' = lock /\ proc'[p] = Closed
    BY <2>1, <2>4 DEF Locked, LocksHeld, NoneRenamed, Past, Closed
  <2>5. CASE lock[path] = NoProc /\ lock' = [lock EXCEPT ![path] = p]
             /\ proc'[p].pc = "locked" /\ proc'[p].inode = path
    <3>1. \A q \in Procs : ~Past(q)
      BY <1>4, <2>5, ProcsAssumption
    <3>2. lock'[path] = p
      BY <1>1, <2>5
    <3>3. \A q \in Procs : q # p => ~Past(q)'
      BY <2>1, <3>1 DEF Past
    <3> QED
      BY <2>1, <2>5, <3>2, <3>3 DEF Locked, LocksHeld, NoneRenamed
  <2> QED
    BY <2>3, <2>4, <2>5
<1>8. ASSUME NEW p \in Procs, ReadLines(p) \/ Close(p) \/ Tear(p)
      PROVE  Good
  <2>1. \A q \in Procs : q # p => proc'[q] = proc[q]
    BY <1>1, <1>8 DEF ReadLines, Close, Tear
  <2>2. \/ lock' = lock /\ Past(p) /\ proc'[p].pc # "renamed" /\ proc'[p].inode = proc[p].inode
        \/ lock' = Unlocked(p) /\ proc'[p] = Closed
    <3>1. CASE ReadLines(p)
      BY <1>1, <3>1 DEF ReadLines, At, Past, ProcType
    <3>2. CASE Close(p) \/ Tear(p)
      BY <1>1, <3>2 DEF Close, Tear
    <3> QED
      BY <1>8, <3>1, <3>2
  <2>3. CASE lock' = lock /\ Past(p) /\ proc'[p].pc # "renamed" /\ proc'[p].inode = proc[p].inode
    BY <1>4, <2>1, <2>3 DEF Locked, LocksHeld, NoneRenamed, Past
  <2>4. CASE lock' = Unlocked(p) /\ proc'[p] = Closed
    <3>1. \A q \in Procs : q # p /\ Past(q) => lock'[proc[q].inode] = q
      BY <1>1, <1>4, <1>5, <2>4
    <3> QED
      BY <2>1, <2>4, <3>1 DEF Locked, LocksHeld, NoneRenamed, Past, Closed
  <2> QED
    BY <2>2, <2>3, <2>4
<1>9. ASSUME NEW p \in Procs, NEW tx \in Transactions, Commit(p, tx)
      PROVE  Good
  <2>1. /\ lock' = lock
        /\ \A q \in Procs : proc'[q].pc = proc[q].pc /\ proc'[q].inode = proc[q].inode
    BY <1>1, <1>9 DEF Commit, ProcType
  <2> QED
    BY <2>1 DEF Locked, LocksHeld, NoneRenamed, Past
<1>10. CASE UNCHANGED vars
  <2>1. lock' = lock /\ \A q \in Procs : proc'[q] = proc[q]
    BY <1>10 DEF vars
  <2>2. Good
    BY <2>1 DEF Locked, LocksHeld, NoneRenamed, Past
  <2> QED
    BY <1>2, <2>2 DEF Locked
<1> QED
  BY <1>2, <1>3, <1>6, <1>7, <1>8, <1>9, <1>10 DEF Next, Locked

\* While nobody rewrites the file, its lock lets one of any number of
\* processes in (try_lock in open).
THEOREM LockExcludes == Spec /\ [][~Rewrite]_vars => []Exclusive
<1>1. Init => Locked
  BY InitAtPath DEF Init, Locked, LocksHeld, NoneRenamed, Past, Closed
<1>2. Types /\ Locked /\ [Next]_vars /\ [~Rewrite]_vars => Locked'
  <2>1. Types /\ Locked /\ UNCHANGED vars => Locked'
    BY DEF vars, Locked, AtPath, LocksHeld, NoneRenamed, Past
  <2> QED
    BY <2>1, LockedKept
<1>3. Locked => Exclusive
  BY DEF Locked, AtPath, LocksHeld, NoneRenamed, Exclusive, Past
<1> QED
  BY <1>1, <1>2, <1>3, JsonlTypes, PTL DEF Spec

(***************************************************************************)
(* What the file says.                                                     *)
(***************************************************************************)
\* The inductive invariant of the two theorems below.
LEMMA ExclusiveTruth == Spec /\ []Exclusive => []Truthful
BY InitTruthful, NextTruthful, JsonlTypes, PTL DEF Spec

\* The lines of the file hold exactly what was acknowledged, through torn
\* tails, reopenings and rewrites, while one process at a time is past the
\* lock (commit, open, compact_file).
THEOREM FileKeepsTruth == Spec /\ []Exclusive => []FileIsTruth
<1>1. Truthful => FileIsTruth
  BY DEF Truthful, Says, FileIsTruth
<1> QED
  BY <1>1, ExclusiveTruth, PTL

\* An open session is safe to append to, under the same condition: nothing
\* partial precedes its line, and its seqs are beyond every one in the file.
THEOREM AppendsAreSafe == Spec /\ []Exclusive => []AppendSafe
<1>1. Types /\ Exclusive /\ Truthful => AppendSafe
  <2> SUFFICES ASSUME Types, Exclusive, Truthful, NEW p \in Procs, At(p, "open")
               PROVE  LET file == files[proc[p].inode] IN
                      /\ ~file.torn
                      /\ \A i \in DOMAIN Writes(file.lines) :
                           Writes(file.lines)[i].seq <= proc[p].mem.seq
    BY DEF AppendSafe
  <2>1. proc[p].inode = path /\ Loaded(p)
    BY DEF At, Exclusive, Past, Loaded
  <2> QED
    BY <2>1 DEF Truthful, Follows
<1> QED
  BY <1>1, JsonlTypes, ExclusiveTruth, PTL

\* A session of one process is exactly what was acknowledged to it, however
\* often it is opened, torn and rewritten.
COROLLARY OneProcessFile ==
  ASSUME OneProcess
  PROVE  Spec => [](FileIsTruth /\ AppendSafe)
BY OneIsExclusive, FileKeepsTruth, AppendsAreSafe, PTL

\* A file nobody rewrites has one writer, whose session it is, however many
\* processes open it.
COROLLARY UnrewrittenFile ==
  Spec /\ [][~Rewrite]_vars => [](FileIsTruth /\ AppendSafe /\ OneWriter)
<1>1. Exclusive => OneWriter
  BY DEF Exclusive, OneWriter, At, Past
<1> QED
  BY <1>1, LockExcludes, FileKeepsTruth, AppendsAreSafe, PTL

=============================================================================
