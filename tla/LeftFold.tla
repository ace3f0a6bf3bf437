------------------------------- MODULE LeftFold -------------------------------
(***************************************************************************)
(* FoldLeft of the community modules, step by step: what holds of a fold   *)
(* because of what each step of it does.  A theorem cannot have an operator *)
(* as a parameter, but a module can: an INSTANCE with Op instantiates all. *)
(***************************************************************************)
EXTENDS Integers, Sequences, SequencesExt, WellFoundedInduction, TLAPS

CONSTANT Op(_, _)

Folded(base, seq) == FoldLeft(Op, base, seq)

(***************************************************************************)
(* Induction over the natural numbers, for a set.                          *)
(***************************************************************************)
LEMMA NatInduct ==
  ASSUME NEW S, 0 \in S, \A n \in Nat : n \in S => n + 1 \in S
  PROVE  Nat \subseteq S
<1> DEFINE T == Nat \ S
           R == {ss \in Nat \X Nat : ss[1] < ss[2]}
<1>1. SUFFICES ASSUME T # {}
               PROVE  FALSE
  OBVIOUS
<1>2. PICK m \in T : \A y \in T : ~ (<<y, m>> \in R)
  <2>1. T \subseteq Nat
    OBVIOUS
  <2>2. IsWellFoundedOn(R, Nat)
    BY NatLessThanWellFounded DEF OpToRel
  <2> HIDE DEF T, R
  <2> QED
    BY <1>1, <2>1, <2>2, WFMin
<1>3. m \in Nat /\ m # 0
  OBVIOUS
<1>4. m - 1 \in T
  BY <1>3
<1>5. <<m - 1, m>> \in R
  BY <1>3, <1>4
<1> QED
  BY <1>2, <1>4, <1>5

\* The same up to a bound.
LEMMA UpTo ==
  ASSUME NEW n \in Nat, NEW S, 0 \in S, \A i \in 0 .. n : i \in S /\ i < n => i + 1 \in S
  PROVE  0 .. n \subseteq S
<1> DEFINE T == {i \in Nat : i <= n => i \in S}
<1>1. 0 \in T
  OBVIOUS
<1>2. ASSUME NEW i \in Nat, i \in T
      PROVE  i + 1 \in T
  BY <1>2
<1> HIDE DEF T
<1>3. Nat \subseteq T
  BY <1>1, <1>2, NatInduct
<1> QED
  BY <1>3 DEF T

(***************************************************************************)
(* What a fold goes through.                                               *)
(***************************************************************************)
Trace(g, base, seq) ==
  /\ DOMAIN g = 0 .. Len(seq) /\ g[0] = base
  /\ \A i \in 1 .. Len(seq) : g[i] = Op(g[i - 1], seq[i])

\* The recursion of MapThenFoldSet, on the subsets of the first n indices.
Recursion(f, n, base, seq) ==
  /\ DOMAIN f = SUBSET (1 .. n)
  /\ \A S \in SUBSET (1 .. n) : f[S] = IF S = {} THEN base ELSE Op(f[S \ {Max(S)}], seq[Max(S)])

\* A set of indices has a largest one.
LEMMA MaxOf ==
  ASSUME NEW n \in Nat, NEW S \in SUBSET (1 .. n), S # {}
  PROVE  Max(S) \in S /\ \A x \in S : x <= Max(S)
<1> DEFINE T == {i \in Nat : \A U \in SUBSET (1 .. i) : U # {} => \E m \in U : \A x \in U : x <= m}
<1>1. 0 \in T
  <2>1. \A U \in SUBSET (1 .. 0) : U = {}
    OBVIOUS
  <2> QED
    BY <2>1
<1>2. ASSUME NEW i \in Nat, i \in T
      PROVE  i + 1 \in T
  <2>1. ASSUME NEW U \in SUBSET (1 .. i + 1), U # {}
        PROVE  \E m \in U : \A x \in U : x <= m
    <3>1. CASE i + 1 \in U
      <4>1. \A x \in U : x <= i + 1
        OBVIOUS
      <4> QED
        BY <3>1, <4>1
    <3>2. CASE i + 1 \notin U
      <4>1. U \in SUBSET (1 .. i)
        BY <3>2
      <4> QED
        BY <1>2, <2>1, <4>1
    <3> QED
      BY <3>1, <3>2
  <2> QED
    BY <2>1
<1> HIDE DEF T
<1>3. n \in T
  BY <1>1, <1>2, NatInduct
<1>4. \E m \in S : \A x \in S : m >= x
  BY <1>3 DEF T
<1>5. Max(S) \in S /\ \A x \in S : Max(S) >= x
  BY <1>4 DEF Max
<1> QED
  BY <1>5

\* The recursion has a solution.
LEMMA RecursionExists ==
  ASSUME NEW base, NEW seq, NEW n \in Nat
  PROVE  \E f : Recursion(f, n, base, seq)
<1> DEFINE T == {i \in Nat : \E f : Recursion(f, i, base, seq)}
<1>1. 0 \in T
  <2>1. SUBSET (1 .. 0) = {{}}
    OBVIOUS
  <2>2. Recursion([S \in SUBSET (1 .. 0) |-> base], 0, base, seq)
    BY <2>1 DEF Recursion
  <2> QED
    BY <2>2
<1>2. ASSUME NEW i \in Nat, i \in T
      PROVE  i + 1 \in T
  <2>1. PICK f : Recursion(f, i, base, seq)
    BY <1>2
  <2> DEFINE g == [S \in SUBSET (1 .. i + 1) |->
                     IF i + 1 \in S THEN Op(f[S \ {i + 1}], seq[i + 1]) ELSE f[S]]
  <2>2. ASSUME NEW S \in SUBSET (1 .. i + 1)
        PROVE  g[S] = IF S = {} THEN base ELSE Op(g[S \ {Max(S)}], seq[Max(S)])
    <3>1. CASE S = {}
      <4>1. g[S] = f[S] /\ S \in SUBSET (1 .. i)
        BY <3>1
      <4> QED
        BY <2>1, <3>1, <4>1 DEF Recursion
    <3>2. CASE i + 1 \in S
      <4>1. Max(S) = i + 1
        <5>1. i + 1 \in Nat /\ S # {}
          BY <3>2
        <5>2. Max(S) \in S /\ \A x \in S : x <= Max(S)
          BY <5>1, MaxOf
        <5>3. Max(S) \in 1 .. i + 1 /\ i + 1 <= Max(S)
          BY <3>2, <5>2
        <5> QED
          BY <5>3
      <4>2. S \ {i + 1} \in SUBSET (1 .. i) /\ i + 1 \notin S \ {i + 1}
        OBVIOUS
      <4>3. g[S \ {i + 1}] = f[S \ {i + 1}]
        BY <4>2
      <4> QED
        BY <3>2, <4>1, <4>3
    <3>3. CASE S # {} /\ i + 1 \notin S
      <4>1. S \in SUBSET (1 .. i)
        <5>1. \A x \in S : x \in 1 .. i + 1 /\ x # i + 1
          BY <3>3
        <5> QED
          BY <5>1
      <4>2. S \ {Max(S)} \in SUBSET (1 .. i + 1) /\ i + 1 \notin S \ {Max(S)}
        BY <3>3
      <4>3. g[S] = f[S] /\ g[S \ {Max(S)}] = f[S \ {Max(S)}]
        BY <3>3, <4>2
      <4>4. f[S] = Op(f[S \ {Max(S)}], seq[Max(S)])
        BY <2>1, <3>3, <4>1 DEF Recursion
      <4> QED
        BY <3>3, <4>3, <4>4
    <3> QED
      BY <3>1, <3>2, <3>3
  <2>3. Recursion(g, i + 1, base, seq)
    BY <2>2 DEF Recursion
  <2> QED
    BY <2>3
<1> HIDE DEF T
<1>3. n \in T
  BY <1>1, <1>2, NatInduct
<1> QED
  BY <1>3 DEF T

\* So does the trace of a fold.
LEMMA TraceExists ==
  ASSUME NEW S, NEW seq \in Seq(S), NEW base
  PROVE  \E g : Trace(g, base, seq)
<1> DEFINE n == Len(seq)
<1>1. PICK f : Recursion(f, n, base, seq)
  BY RecursionExists
<1>2. n \in Nat
  OBVIOUS
<1> HIDE DEF n
<1> DEFINE g == [i \in 0 .. n |-> f[1 .. i]]
<1>3. g[0] = base
  <2>1. 1 .. 0 = {} /\ 0 \in 0 .. n
    BY <1>2
  <2>2. f[{}] = base
    BY <1>1 DEF Recursion
  <2> QED
    BY <2>1, <2>2
<1>4. ASSUME NEW i \in 1 .. n
      PROVE  g[i] = Op(g[i - 1], seq[i])
  <2>1. i \in 1 .. i /\ i - 1 \in 0 .. n /\ i \in 0 .. n /\ 1 .. i \in SUBSET (1 .. n)
    BY <1>2
  <2>2. Max(1 .. i) = i
    <3>1. 1 .. i # {}
      BY <2>1
    <3>2. Max(1 .. i) \in 1 .. i /\ i <= Max(1 .. i)
      BY <1>2, <2>1, <3>1, MaxOf
    <3> QED
      BY <3>2
  <2>3. (1 .. i) \ {i} = 1 .. i - 1
    BY <1>2
  <2>4. f[1 .. i] = Op(f[(1 .. i) \ {i}], seq[i])
    BY <1>1, <2>1, <2>2 DEF Recursion
  <2> QED
    BY <2>1, <2>3, <2>4
<1>5. Trace(g, base, seq)
  BY <1>3, <1>4 DEF Trace, n
<1> QED
  BY <1>5

\* There is only one.
LEMMA TraceUnique ==
  ASSUME NEW S, NEW seq \in Seq(S), NEW base, NEW g, NEW h,
         Trace(g, base, seq), Trace(h, base, seq)
  PROVE  \A i \in 0 .. Len(seq) : g[i] = h[i]
<1> DEFINE T == {i \in 0 .. Len(seq) : g[i] = h[i]}
<1>1. 0 \in T
  BY DEF Trace
<1>2. ASSUME NEW i \in 0 .. Len(seq), i \in T, i < Len(seq)
      PROVE  i + 1 \in T
  <2>1. i + 1 \in 1 .. Len(seq) /\ i + 1 - 1 = i
    BY <1>2
  <2> QED
    BY <1>2, <2>1 DEF Trace
<1>3. Len(seq) \in Nat
  OBVIOUS
<1> HIDE DEF T
<1>4. 0 .. Len(seq) \subseteq T
  BY <1>1, <1>2, <1>3, UpTo
<1> QED
  BY <1>4 DEF T

\* A fold is where its trace ends.
LEMMA FoldTrace ==
  ASSUME NEW S, NEW seq \in Seq(S), NEW base
  PROVE  /\ \E g : Trace(g, base, seq)
         /\ \A g : Trace(g, base, seq) => Folded(base, seq) = g[Len(seq)]
<1> DEFINE n == Len(seq)
           Steps(f) == f = [I \in SUBSET DOMAIN seq |->
                              IF I = {} THEN base ELSE Op(f[I \ {Max(I)}], seq[Max(I)])]
           iter == CHOOSE f : Steps(f)
<1>1. n \in Nat /\ DOMAIN seq = 1 .. n
  OBVIOUS
<1>2. \E f : Steps(f)
  <2>1. PICK f : Recursion(f, n, base, seq)
    BY <1>1, RecursionExists
  <2> DEFINE h == [I \in SUBSET DOMAIN seq |-> f[I]]
  <2>2. ASSUME NEW I \in SUBSET DOMAIN seq
        PROVE  h[I] = IF I = {} THEN base ELSE Op(h[I \ {Max(I)}], seq[Max(I)])
    <3>1. I \ {Max(I)} \in SUBSET DOMAIN seq
      OBVIOUS
    <3> QED
      BY <1>1, <2>1, <3>1 DEF Recursion
  <2>3. Steps(h)
    BY <2>2
  <2> QED
    BY <2>3
<1>3. Steps(iter)
  BY <1>2
<1>4. Folded(base, seq) = iter[DOMAIN seq]
  BY DEF Folded, FoldLeft, MapThenFoldSet
<1>5. Recursion(iter, n, base, seq)
  BY <1>1, <1>3 DEF Recursion
<1> HIDE DEF iter, Steps, n
<1> DEFINE g == [i \in 0 .. n |-> iter[1 .. i]]
<1>6. g[0] = base
  <2>1. 1 .. 0 = {} /\ 0 \in 0 .. n
    BY <1>1
  <2>2. iter[{}] = base
    BY <1>5 DEF Recursion
  <2> QED
    BY <2>1, <2>2
<1>7. ASSUME NEW i \in 1 .. n
      PROVE  g[i] = Op(g[i - 1], seq[i])
  <2>1. i \in 1 .. i /\ i - 1 \in 0 .. n /\ i \in 0 .. n /\ 1 .. i \in SUBSET (1 .. n)
    BY <1>1
  <2>2. Max(1 .. i) = i
    <3>1. 1 .. i # {}
      BY <2>1
    <3>2. Max(1 .. i) \in 1 .. i /\ i <= Max(1 .. i)
      BY <1>1, <2>1, <3>1, MaxOf
    <3> QED
      BY <3>2
  <2>3. (1 .. i) \ {i} = 1 .. i - 1
    BY <1>1
  <2>4. iter[1 .. i] = Op(iter[(1 .. i) \ {i}], seq[i])
    BY <1>5, <2>1, <2>2 DEF Recursion
  <2> QED
    BY <2>1, <2>3, <2>4
<1>8. Trace(g, base, seq)
  BY <1>6, <1>7 DEF Trace, n
<1>9. g[n] = Folded(base, seq)
  BY <1>1, <1>4
<1> HIDE DEF g
<1> QED
  BY <1>1, <1>8, <1>9, TraceUnique DEF n

\* A fold over nothing leaves the base.
LEMMA FoldEmpty ==
  ASSUME NEW base
  PROVE  Folded(base, <<>>) = base
<1>1. <<>> \in Seq({}) /\ Len(<<>>) = 0
  OBVIOUS
<1>2. PICK g : Trace(g, base, <<>>)
  BY <1>1, FoldTrace
<1>3. Folded(base, <<>>) = g[0]
  BY <1>1, <1>2, FoldTrace
<1> QED
  BY <1>2, <1>3 DEF Trace

\* What holds of the base, and of a step after it held, holds of the fold.
LEMMA FoldSteps ==
  ASSUME NEW S, NEW seq \in Seq(S), NEW base, NEW T, <<0, base>> \in T,
         \A i \in 1 .. Len(seq) : \A m : <<i - 1, m>> \in T => <<i, Op(m, seq[i])>> \in T
  PROVE  <<Len(seq), Folded(base, seq)>> \in T
<1>1. PICK g : Trace(g, base, seq)
  BY FoldTrace
<1>2. Folded(base, seq) = g[Len(seq)]
  BY <1>1, FoldTrace
<1>3. Len(seq) \in Nat
  OBVIOUS
<1> DEFINE U == {i \in 0 .. Len(seq) : <<i, g[i]>> \in T}
<1>4. 0 \in U
  BY <1>1, <1>3 DEF Trace
<1>5. ASSUME NEW i \in 0 .. Len(seq), i \in U, i < Len(seq)
      PROVE  i + 1 \in U
  <2>1. i + 1 \in 1 .. Len(seq) /\ i + 1 - 1 = i /\ i + 1 \in 0 .. Len(seq)
    BY <1>3, <1>5
  <2>2. <<i, g[i]>> \in T
    BY <1>5
  <2>3. g[i + 1] = Op(g[i], seq[i + 1])
    BY <1>1, <2>1 DEF Trace
  <2> QED
    BY <2>1, <2>2, <2>3
<1> HIDE DEF U
<1>6. 0 .. Len(seq) \subseteq U
  BY <1>3, <1>4, <1>5, UpTo
<1>7. Len(seq) \in U
  BY <1>3, <1>6
<1> QED
  BY <1>2, <1>7 DEF U

\* The same where the position does not matter.
LEMMA FoldIn ==
  ASSUME NEW S, NEW seq \in Seq(S), NEW I, NEW base \in I,
         \A m \in I : \A x \in S : Op(m, x) \in I
  PROVE  Folded(base, seq) \in I
<1> DEFINE T == Nat \X I
<1>1. <<0, base>> \in T
  OBVIOUS
<1>2. \A i \in 1 .. Len(seq) : \A m : <<i - 1, m>> \in T => <<i, Op(m, seq[i])>> \in T
  <2>1. ASSUME NEW i \in 1 .. Len(seq), NEW m, <<i - 1, m>> \in T
        PROVE  <<i, Op(m, seq[i])>> \in T
    <3>1. i \in Nat /\ seq[i] \in S /\ m \in I
      BY <2>1
    <3> QED
      BY <3>1
  <2> QED
    BY <2>1
<1> HIDE DEF T
<1>3. <<Len(seq), Folded(base, seq)>> \in T
  BY <1>1, <1>2, FoldSteps
<1> QED
  BY <1>3 DEF T

\* A fold over two sequences in a row goes on from the first.
LEMMA FoldConcat ==
  ASSUME NEW S, NEW a \in Seq(S), NEW b \in Seq(S), NEW base
  PROVE  Folded(base, a \o b) = Folded(Folded(base, a), b)
<1>1. PICK g : Trace(g, base, a)
  BY FoldTrace
<1>2. Folded(base, a) = g[Len(a)]
  BY <1>1, FoldTrace
<1>3. PICK h : Trace(h, base, a \o b)
  <2>1. a \o b \in Seq(S)
    OBVIOUS
  <2> QED
    BY <2>1, FoldTrace
<1>4. Folded(base, a \o b) = h[Len(a \o b)]
  <2>1. a \o b \in Seq(S)
    OBVIOUS
  <2> QED
    BY <1>3, <2>1, FoldTrace
<1>5. Len(a) \in Nat /\ Len(b) \in Nat /\ Len(a \o b) = Len(a) + Len(b)
  OBVIOUS
<1>6. h[Len(a)] = g[Len(a)]
  <2> DEFINE k == [i \in 0 .. Len(a) |-> h[i]]
  <2>1. ASSUME NEW i \in 1 .. Len(a)
        PROVE  k[i] = Op(k[i - 1], a[i])
    <3>1. i \in 1 .. Len(a \o b) /\ (a \o b)[i] = a[i] /\ i \in 0 .. Len(a) /\ i - 1 \in 0 .. Len(a)
      BY <1>5
    <3> QED
      BY <1>3, <3>1 DEF Trace
  <2>2. 0 \in 0 .. Len(a) /\ Len(a) \in 0 .. Len(a)
    BY <1>5
  <2>3. Trace(k, base, a)
    BY <1>3, <2>1, <2>2 DEF Trace
  <2>4. k[Len(a)] = g[Len(a)]
    <3> HIDE DEF k
    <3> QED
      BY <1>1, <2>2, <2>3, TraceUnique
  <2> QED
    BY <2>2, <2>4
<1>7. Folded(Folded(base, a), b) = h[Len(a) + Len(b)]
  <2> DEFINE k == [i \in 0 .. Len(b) |-> h[Len(a) + i]]
  <2>1. ASSUME NEW i \in 1 .. Len(b)
        PROVE  k[i] = Op(k[i - 1], b[i])
    <3>1. Len(a) + i \in 1 .. Len(a \o b) /\ (a \o b)[Len(a) + i] = b[i]
      BY <1>5
    <3>2. i \in 0 .. Len(b) /\ i - 1 \in 0 .. Len(b) /\ Len(a) + i - 1 = Len(a) + (i - 1)
      BY <1>5
    <3>3. \A j \in 1 .. Len(a \o b) : h[j] = Op(h[j - 1], (a \o b)[j])
      BY <1>3 DEF Trace
    <3>4. \A j \in 1 .. Len(a \o b) : j = Len(a) + i => h[j] = Op(h[j - 1], b[i])
      BY <3>1, <3>3
    <3>5. h[Len(a) + i] = Op(h[Len(a) + i - 1], b[i])
      BY <3>1, <3>4
    <3> QED
      BY <3>2, <3>5
  <2>2. 0 \in 0 .. Len(b) /\ Len(b) \in 0 .. Len(b) /\ Len(a) + 0 = Len(a)
    BY <1>5
  <2>3. Trace(k, Folded(base, a), b)
    BY <1>2, <1>6, <2>1, <2>2 DEF Trace
  <2>4. Folded(Folded(base, a), b) = k[Len(b)]
    <3> HIDE DEF k
    <3> QED
      BY <2>3, FoldTrace
  <2> QED
    BY <2>2, <2>4
<1> QED
  BY <1>4, <1>5, <1>7

\* A fold over one element is one step.
LEMMA FoldOne ==
  ASSUME NEW base, NEW x
  PROVE  Folded(base, <<x>>) = Op(base, x)
<1>1. <<x>> \in Seq({x}) /\ Len(<<x>>) = 1 /\ <<x>>[1] = x
  OBVIOUS
<1>2. PICK g : Trace(g, base, <<x>>)
  BY <1>1, FoldTrace
<1>3. Folded(base, <<x>>) = g[1]
  BY <1>1, <1>2, FoldTrace
<1>4. g[1] = Op(g[1 - 1], <<x>>[1]) /\ g[0] = base
  BY <1>1, <1>2 DEF Trace
<1> QED
  BY <1>1, <1>3, <1>4

\* Two folds over the same sequence agree where their steps do.
LEMMA FoldAgree ==
  ASSUME NEW S, NEW seq \in Seq(S), NEW R, NEW b1, NEW b2, <<b1, b2>> \in R,
         \A m1, m2 : \A x \in S : <<m1, m2>> \in R => <<Op(m1, x), Op(m2, x)>> \in R
  PROVE  <<Folded(b1, seq), Folded(b2, seq)>> \in R
<1>1. PICK g : Trace(g, b1, seq)
  BY FoldTrace
<1>2. PICK h : Trace(h, b2, seq)
  BY FoldTrace
<1>3. Folded(b1, seq) = g[Len(seq)] /\ Folded(b2, seq) = h[Len(seq)]
  BY <1>1, <1>2, FoldTrace
<1>4. Len(seq) \in Nat
  OBVIOUS
<1> DEFINE U == {i \in 0 .. Len(seq) : <<g[i], h[i]>> \in R}
<1>5. 0 \in U
  BY <1>1, <1>2, <1>4 DEF Trace
<1>6. ASSUME NEW i \in 0 .. Len(seq), i \in U, i < Len(seq)
      PROVE  i + 1 \in U
  <2>1. i + 1 \in 1 .. Len(seq) /\ i + 1 - 1 = i /\ i + 1 \in 0 .. Len(seq) /\ seq[i + 1] \in S
    BY <1>4, <1>6
  <2>2. <<g[i], h[i]>> \in R
    BY <1>6
  <2>3. g[i + 1] = Op(g[i], seq[i + 1]) /\ h[i + 1] = Op(h[i], seq[i + 1])
    BY <1>1, <1>2, <2>1 DEF Trace
  <2> QED
    BY <2>1, <2>2, <2>3
<1> HIDE DEF U
<1>7. Len(seq) \in U
  <2>1. 0 .. Len(seq) \subseteq U
    BY <1>4, <1>5, <1>6, UpTo
  <2> QED
    BY <1>4, <2>1
<1> QED
  BY <1>3, <1>7 DEF U

===============================================================================
