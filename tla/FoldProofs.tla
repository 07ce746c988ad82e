------------------------------ MODULE FoldProofs ------------------------------
(***************************************************************************)
(* Lemmas the proofs share: induction over numbers, the walk of FoldLeft    *)
(* over a sequence, step by step, and what is made of sequences with it.    *)
(***************************************************************************)
EXTENDS SequencesExt, SequenceTheorems, WellFoundedInduction, TLAPS

-------------------------------------------------------------------------------
(* Induction, and FoldLeft's walk.                                            *)

\* A set of numbers that is not empty has a least one.
LEMMA LeastNumber ==
  ASSUME NEW T \in SUBSET Nat, T # {}
  PROVE  \E m \in T : \A k \in T : m <= k
<1> DEFINE R == OpToRel(<, Nat)
<1>1. IsWellFoundedOn(R, Nat)
  BY NatLessThanWellFounded
<1>2. \E m \in T : \A k \in T : <<k, m>> \notin R
  <2> HIDE DEF R
  <2> QED
    BY <1>1, WFMin
<1>3. \A k, m \in Nat : k < m => <<k, m>> \in R
  BY DEF OpToRel
<1>4. PICK m \in T : \A k \in T : <<k, m>> \notin R
  BY <1>2
<1>5. ASSUME NEW k \in T
      PROVE  m <= k
  <2>1. ~(k < m)
    BY <1>3, <1>4
  <2> QED
    BY <2>1
<1> QED
  BY <1>5

\* A set that holds 0, and n + 1 with each n, holds every number.
LEMMA Induction ==
  ASSUME NEW S, 0 \in S, \A n \in Nat : n \in S => n + 1 \in S
  PROVE  Nat \subseteq S
<1> DEFINE T == Nat \ S
<1> SUFFICES ASSUME T # {} PROVE FALSE
  OBVIOUS
<1>1. PICK m \in T : \A k \in T : m <= k
  <2>1. T \in SUBSET Nat
    OBVIOUS
  <2> QED
    BY <2>1, LeastNumber
<1>2. m \in Nat /\ m # 0
  BY <1>1
<1>3. m - 1 \in Nat /\ m - 1 \in S
  BY <1>1, <1>2
<1> QED
  BY <1>1, <1>2, <1>3

\* The largest of 1..k, and what is left without it.
LEMMA LargestOfPrefix ==
  ASSUME NEW k \in Nat
  PROVE  Max(1..(k + 1)) = k + 1 /\ (1..(k + 1)) \ {k + 1} = 1..k
<1>1. k + 1 \in 1..(k + 1) /\ \A y \in 1..(k + 1) : k + 1 >= y
  OBVIOUS
<1>2. \A x \in 1..(k + 1) : (\A y \in 1..(k + 1) : x >= y) => x = k + 1
  BY <1>1
<1> QED
  BY <1>1, <1>2 DEF Max

\* The largest of a set of numbers is the one no other exceeds.
LEMMA LargestIs ==
  ASSUME NEW m \in Nat, NEW s \in SUBSET (1..m), m \in s
  PROVE  Max(s) = m
<1>1. \A y \in s : m >= y
  OBVIOUS
<1>2. \A x \in s : (\A y \in s : x >= y) => x = m
  BY <1>1
<1> QED
  BY <1>1, <1>2 DEF Max

\* It is one of them.
LEMMA LargestInRange ==
  ASSUME NEW n \in Nat, NEW s \in SUBSET (1..n), s # {}
  PROVE  Max(s) \in s
<1>1. \E x \in s : \A y \in s : x >= y
  <2> DEFINE T == {n - x : x \in s}
  <2>1. T \in SUBSET Nat /\ T # {}
    <3>1. \A x \in s : n - x \in Nat
      OBVIOUS
    <3> QED
      BY <3>1
  <2>2. PICK m \in T : \A k \in T : m <= k
    BY <2>1, LeastNumber
  <2>3. PICK x \in s : m = n - x
    BY <2>2
  <2>5. \A y \in s : n - y \in T /\ y \in Nat
    OBVIOUS
  <2> HIDE DEF T
  <2>4. \A y \in s : x >= y
    BY <2>2, <2>3, <2>5
  <2> QED
    BY <2>4
<1> QED
  BY <1>1 DEF Max


\* The walk of FoldLeft is a function on the parts of a sequence's domain.
Walked(iter, n, D, base, step) ==
  /\ iter \in [SUBSET (1..n) -> D]
  /\ iter[{}] = base
  /\ \A s \in SUBSET (1..n) : s # {} => iter[s] = step[Max(s)][iter[s \ {Max(s)}]]

\* The values it comes by, and the one it ends with.
Row(g, n, D, base, step, end) ==
  /\ g \in [0..n -> D]
  /\ g[0] = base
  /\ \A k \in 1..n : g[k] = step[k][g[k - 1]]
  /\ g[n] = end

\* There is such a function for every step.
LEMMA WalkExists ==
  ASSUME NEW n \in Nat, NEW D, NEW base \in D, NEW step \in [1..n -> [D -> D]]
  PROVE  \E iter : Walked(iter, n, D, base, step)
<1> DEFINE Is(iter, m) ==
             /\ iter \in [SUBSET (1..m) -> D]
             /\ \A s \in SUBSET (1..m) :
                  iter[s] = IF s = {} THEN base ELSE step[Max(s)][iter[s \ {Max(s)}]]
           Found(m) == \E iter \in [SUBSET (1..m) -> D] : Is(iter, m)
           S == {m \in Nat : m <= n => Found(m)}
<1>1. Found(0)
  <2> DEFINE iter == [s \in SUBSET (1..0) |-> base]
  <2>1. 1..0 = {}
    OBVIOUS
  <2>2. Is(iter, 0)
    BY <2>1
  <2> QED
    BY <2>2
<1>2. ASSUME NEW m \in Nat, m + 1 <= n, Found(m)
      PROVE  Found(m + 1)
  <2>1. PICK old \in [SUBSET (1..m) -> D] : Is(old, m)
    BY <1>2
  <2> DEFINE new == [s \in SUBSET (1..(m + 1)) |->
                       IF m + 1 \in s THEN step[m + 1][old[s \ {m + 1}]] ELSE old[s]]
  <2>2. \A s \in SUBSET (1..(m + 1)) : s \ {m + 1} \in SUBSET (1..m) /\ (m + 1 \notin s => s \in SUBSET (1..m))
    OBVIOUS
  <2>3. m + 1 \in 1..n
    BY <1>2
  <2>4. new \in [SUBSET (1..(m + 1)) -> D]
    BY <2>2, <2>3
  <2>5. ASSUME NEW s \in SUBSET (1..(m + 1)), m + 1 \in s
        PROVE  new[s] = IF s = {} THEN base ELSE step[Max(s)][new[s \ {Max(s)}]]
    <3>1. Max(s) = m + 1
      BY <2>5, LargestIs
    <3>2. new[s] = step[m + 1][old[s \ {m + 1}]]
      BY <2>5
    <3>3. s \ {m + 1} \in SUBSET (1..(m + 1)) /\ m + 1 \notin s \ {m + 1}
      OBVIOUS
    <3>4. new[s \ {m + 1}] = old[s \ {m + 1}]
      BY <3>3
    <3> HIDE DEF new
    <3> QED
      BY <2>5, <3>1, <3>2, <3>4
  <2>6. ASSUME NEW s \in SUBSET (1..(m + 1)), m + 1 \notin s
        PROVE  new[s] = IF s = {} THEN base ELSE step[Max(s)][new[s \ {Max(s)}]]
    <3>1. new[s] = old[s] /\ s \in SUBSET (1..m)
      BY <2>2, <2>6
    <3>2. old[s] = IF s = {} THEN base ELSE step[Max(s)][old[s \ {Max(s)}]]
      BY <2>1, <3>1
    <3>3. s \ {Max(s)} \in SUBSET (1..(m + 1)) /\ m + 1 \notin s \ {Max(s)}
      BY <2>6
    <3>4. new[s \ {Max(s)}] = old[s \ {Max(s)}]
      BY <3>3
    <3> HIDE DEF new
    <3> QED
      BY <3>1, <3>2, <3>4
  <2>7. Is(new, m + 1)
    <3> HIDE DEF new
    <3> QED
      BY <2>4, <2>5, <2>6
  <2> QED
    BY <2>4, <2>7
<1>3. n \in S
  <2> HIDE DEF Found
  <2>1. 0 \in S
    BY <1>1
  <2>2. \A m \in Nat : m \in S => m + 1 \in S
    BY <1>2
  <2> HIDE DEF S
  <2> QED
    BY <2>1, <2>2, Induction
<1>4. PICK iter \in [SUBSET (1..n) -> D] : Is(iter, n)
  <2>1. Found(n)
    <3> HIDE DEF Found
    <3> QED
      BY <1>3
  <2> QED
    BY <2>1
<1> QED
  BY <1>4 DEF Walked

\* A function on the parts of 1..n that is defined like the walk of FoldLeft has a
\* row of values, each one the step from the one before.
LEMMA WalkRow ==
  ASSUME NEW n \in Nat, NEW D, NEW base \in D, NEW step \in [1..n -> [D -> D]], NEW walk,
         walk[{}] = base,
         \A k \in 1..n : walk[1..(k - 1)] \in D => walk[1..k] = step[k][walk[1..(k - 1)]]
  PROVE  \E g : Row(g, n, D, base, step, walk[1..n])
<1> DEFINE S == {k \in Nat : k <= n => walk[1..k] \in D}
<1>0. 1..0 = {}
  OBVIOUS
<1>1. \A k \in 0..n : walk[1..k] \in D
  <2>1. 0 \in S
    BY <1>0
  <2>2. \A k \in Nat : k \in S => k + 1 \in S
    <3> SUFFICES ASSUME NEW k \in Nat, k + 1 <= n, walk[1..k] \in D PROVE walk[1..(k + 1)] \in D
      OBVIOUS
    <3>1. k + 1 \in 1..n /\ (k + 1) - 1 = k
      OBVIOUS
    <3> QED
      BY <3>1
  <2>3. Nat \subseteq S
    <3> HIDE DEF S
    <3> QED
      BY <2>1, <2>2, Induction
  <2> QED
    BY <2>3
<1> DEFINE g == [k \in 0..n |-> walk[1..k]]
<1>2. g \in [0..n -> D] /\ g[0] = base /\ g[n] = walk[1..n]
  BY <1>0, <1>1
<1>3. ASSUME NEW k \in 1..n
      PROVE  g[k] = step[k][g[k - 1]]
  <2>1. k - 1 \in 0..n /\ k \in 0..n
    OBVIOUS
  <2> QED
    BY <1>1, <2>1
<1> QED
  <2> HIDE DEF g
  <2> QED
    BY <1>2, <1>3 DEF Row

\* The same of one that is known on every part of 1..n.
LEMMA WalkedRow ==
  ASSUME NEW n \in Nat, NEW D, NEW base \in D, NEW step \in [1..n -> [D -> D]], NEW walk,
         walk[{}] = base,
         \A s \in SUBSET (1..n) : s # {} /\ walk[s \ {Max(s)}] \in D => walk[s] = step[Max(s)][walk[s \ {Max(s)}]]
  PROVE  \E g : Row(g, n, D, base, step, walk[1..n])
<1>1. ASSUME NEW k \in 1..n, walk[1..(k - 1)] \in D
      PROVE  walk[1..k] = step[k][walk[1..(k - 1)]]
  <2>1. k - 1 \in Nat /\ (k - 1) + 1 = k
    OBVIOUS
  <2>2. Max(1..k) = k /\ (1..k) \ {k} = 1..(k - 1)
    BY <2>1, LargestOfPrefix
  <2>3. 1..k \in SUBSET (1..n) /\ 1..k # {}
    <3>1. k \in 1..k /\ 1..k \subseteq 1..n
      OBVIOUS
    <3> QED
      BY <3>1
  <2> QED
    BY <1>1, <2>2, <2>3
<1> QED
  BY <1>1, WalkRow, Zenon

-------------------------------------------------------------------------------
(* Sequences of sequences, one after the other.                               *)

\* A set of sequences that holds the empty one and, with each, what it is with one element
\* more, holds them all.
LEMMA SeqInduction ==
  ASSUME NEW S, NEW P, <<>> \in P,
         \A s \in Seq(S), x \in S : s \in P => Append(s, x) \in P
  PROVE  Seq(S) \subseteq P
<1> DEFINE T == {n \in Nat : \A s \in Seq(S) : Len(s) = n => s \in P}
<1>1. 0 \in T
  BY EmptySeq
<1>2. ASSUME NEW n \in Nat, n \in T
      PROVE  n + 1 \in T
  <2>1. SUFFICES ASSUME NEW s \in Seq(S), Len(s) = n + 1 PROVE s \in P
    BY <1>2
  <2>2. SubSeq(s, 1, n) \in Seq(S) /\ Len(SubSeq(s, 1, n)) = n /\ s[n + 1] \in S
    BY <2>1
  <2>3. s = Append(SubSeq(s, 1, n), s[n + 1])
    BY <2>1, <2>2
  <2> QED
    BY <1>2, <2>2, <2>3
<1>3. Nat \subseteq T
  <2> HIDE DEF T
  <2> QED
    BY <1>1, <1>2, Induction
<1>4. SUFFICES ASSUME NEW s \in Seq(S) PROVE s \in P
  OBVIOUS
<1>5. Len(s) \in T
  <2>1. Len(s) \in Nat
    OBVIOUS
  <2> HIDE DEF T
  <2> QED
    BY <1>3, <2>1
<1> QED
  BY <1>5

\* FlattenSeq goes through its sequences from the first to the last.
LEMMA FlattenRow ==
  ASSUME NEW S, NEW seqs \in Seq(Seq(S))
  PROVE  \E g : /\ g \in [0..Len(seqs) -> Seq(S)] /\ g[0] = <<>>
                /\ \A k \in 1..Len(seqs) : g[k] = g[k - 1] \o seqs[k]
                /\ g[Len(seqs)] = FlattenSeq(seqs)
<1>0. PICK n \in Nat : n = Len(seqs)
  OBVIOUS
<1>1. DOMAIN seqs = 1..n /\ \A k \in 1..n : seqs[k] \in Seq(S)
  BY <1>0
<1>2. CASE n = 0
  <2> DEFINE g == [k \in 0..0 |-> <<>>]
  <2>1. seqs = <<>>
    BY <1>0, <1>2, EmptySeq
  <2>3. FlattenSeq(seqs) = <<>>
    BY <1>0, <1>2, <2>1 DEF FlattenSeq
  <2>2. g \in [0..0 -> Seq(S)] /\ g[0] = <<>>
    OBVIOUS
  <2> HIDE DEF g
  <2> QED
    BY <1>0, <1>2, <2>1, <2>2, <2>3
<1>3. CASE n # 0
  <2> DEFINE step == [k \in 1..n |-> [x \in Seq(S) |-> x \o seqs[k]]]
             Is(f) == f = [i \in 1..n |-> IF i = 1 THEN seqs[i] ELSE f[i - 1] \o seqs[i]]
             flatten == CHOOSE f : Is(f)
  <2>1. step \in [1..n -> [Seq(S) -> Seq(S)]]
    BY <1>1
  <2>2. PICK iter : Walked(iter, n, Seq(S), <<>>, step)
    <3>1. <<>> \in Seq(S)
      OBVIOUS
    <3> HIDE DEF step
    <3> QED
      BY <2>1, <3>1, WalkExists, Zenon
  <2> DEFINE g == [k \in 0..n |-> iter[1..k]]
  <2>3. \A k \in 0..n : 1..k \in SUBSET (1..n)
    OBVIOUS
  <2>4. g \in [0..n -> Seq(S)]
    BY <2>2, <2>3 DEF Walked
  <2>5. g[0] = <<>>
    <3>1. 1..0 = {}
      OBVIOUS
    <3> QED
      BY <2>2, <3>1 DEF Walked
  <2>6. ASSUME NEW k \in 1..n
        PROVE  g[k] = g[k - 1] \o seqs[k]
    <3>1. k - 1 \in Nat /\ (k - 1) + 1 = k /\ k - 1 \in 0..n /\ k \in 0..n
      OBVIOUS
    <3>2. Max(1..k) = k /\ (1..k) \ {k} = 1..(k - 1)
      BY <3>1, LargestOfPrefix
    <3>3. 1..k # {} /\ 1..k \in SUBSET (1..n)
      <4>1. k \in 1..k /\ 1..k \subseteq 1..n
        OBVIOUS
      <4> QED
        BY <4>1
    <3>4. iter[1..k] = step[k][iter[1..(k - 1)]]
      <4> HIDE DEF step
      <4> QED
        BY <2>2, <3>2, <3>3 DEF Walked
    <3>5. iter[1..(k - 1)] \in Seq(S)
      BY <2>2, <2>3, <3>1 DEF Walked
    <3> QED
      BY <3>1, <3>4, <3>5
  <2> HIDE DEF g, step
  <2>7. Is([k \in 1..n |-> g[k]])
    <3>1. g[1] = seqs[1]
      <4>1. 1 \in 1..n /\ 1 - 1 = 0
        BY <1>3
      <4>2. g[1] = g[0] \o seqs[1]
        BY <2>6, <4>1
      <4> QED
        BY <1>1, <2>5, <4>1, <4>2
    <3>2. ASSUME NEW k \in 1..n
          PROVE  g[k] = IF k = 1 THEN seqs[k] ELSE [j \in 1..n |-> g[j]][k - 1] \o seqs[k]
      <4>1. CASE k = 1
        BY <3>1, <4>1
      <4>2. CASE k # 1
        <5>1. k - 1 \in 1..n
          BY <4>2
        <5> QED
          BY <2>6, <4>2, <5>1
      <4> QED
        BY <4>1, <4>2
    <3> QED
      BY <3>2
  <2>8. Is(flatten)
    <3> HIDE DEF Is
    <3> QED
      BY <2>7
  <2>9. FlattenSeq(seqs) = flatten[n]
    BY <1>0, <1>3 DEF FlattenSeq
  <2>10. \A k \in 1..n : flatten[k] = IF k = 1 THEN seqs[k] ELSE flatten[k - 1] \o seqs[k]
    <3> HIDE DEF flatten
    <3> QED
      BY <2>8
  <2> HIDE DEF flatten
  <2> DEFINE T == {k \in Nat : k \in 1..n => flatten[k] = g[k]}
  <2>11. Nat \subseteq T
    <3>1. 0 \in T
      OBVIOUS
    <3>2. ASSUME NEW k \in Nat, k \in T
          PROVE  k + 1 \in T
      <4>1. SUFFICES ASSUME k + 1 \in 1..n PROVE flatten[k + 1] = g[k + 1]
        OBVIOUS
      <4>2. (k + 1) - 1 = k
        OBVIOUS
      <4>3. CASE k = 0
        <5>1. 1 \in 1..n /\ 1 - 1 = 0 /\ k + 1 = 1
          BY <4>1, <4>3
        <5>2. g[1] = g[0] \o seqs[1] /\ seqs[1] \in Seq(S)
          BY <1>1, <2>6, <5>1
        <5>3. flatten[1] = seqs[1]
          BY <2>10, <5>1
        <5> QED
          BY <2>5, <5>1, <5>2, <5>3
      <4>4. CASE k # 0
        <5>1. k \in 1..n /\ k + 1 # 1
          BY <4>1, <4>4
        <5>2. flatten[k + 1] = flatten[k] \o seqs[k + 1]
          BY <2>10, <4>1, <4>2, <5>1
        <5> QED
          BY <2>6, <3>2, <4>1, <4>2, <5>1, <5>2
      <4> QED
        BY <4>3, <4>4
    <3> HIDE DEF T
    <3> QED
      BY <3>1, <3>2, Induction
  <2>12. flatten[n] = g[n]
    <3>1. n \in T
      <4> HIDE DEF T
      <4> QED
        BY <2>11
    <3> QED
      BY <1>3, <3>1
  <2> QED
    BY <1>0, <2>4, <2>5, <2>6, <2>9, <2>12
<1> QED
  BY <1>2, <1>3

\* What it is of no sequences, and with one sequence more.
LEMMA FlattenAppend ==
  ASSUME NEW S, NEW seqs \in Seq(Seq(S)), NEW x \in Seq(S)
  PROVE  /\ FlattenSeq(seqs) \in Seq(S)
         /\ FlattenSeq(<<>>) = <<>>
         /\ FlattenSeq(Append(seqs, x)) = FlattenSeq(seqs) \o x
<1>0. PICK n \in Nat : n = Len(seqs)
  OBVIOUS
<1> DEFINE more == Append(seqs, x)
<1>1. more \in Seq(Seq(S)) /\ Len(more) = n + 1 /\ more[n + 1] = x
  BY <1>0
<1>2. \A k \in 1..n : more[k] = seqs[k]
  BY <1>0
<1> HIDE DEF more
<1>3. PICK g : /\ g \in [0..n -> Seq(S)] /\ g[0] = <<>>
               /\ \A k \in 1..n : g[k] = g[k - 1] \o seqs[k]
               /\ g[n] = FlattenSeq(seqs)
  BY <1>0, FlattenRow
<1>4. PICK h : /\ h \in [0..(n + 1) -> Seq(S)] /\ h[0] = <<>>
               /\ \A k \in 1..(n + 1) : h[k] = h[k - 1] \o more[k]
               /\ h[n + 1] = FlattenSeq(more)
  BY <1>1, FlattenRow, ZenonT(60)
<1> DEFINE T == {k \in Nat : k <= n => h[k] = g[k]}
<1>5. Nat \subseteq T
  <2>1. 0 \in T
    BY <1>3, <1>4
  <2>2. ASSUME NEW k \in Nat, k \in T
        PROVE  k + 1 \in T
    <3>1. SUFFICES ASSUME k + 1 <= n PROVE h[k + 1] = g[k + 1]
      OBVIOUS
    <3>2. k + 1 \in 1..n /\ k + 1 \in 1..(n + 1) /\ (k + 1) - 1 = k
      BY <3>1
    <3>3. g[k + 1] = g[k] \o seqs[k + 1]
      BY <1>3, <3>2
    <3>4. h[k + 1] = h[k] \o more[k + 1]
      BY <1>4, <3>2
    <3>5. h[k] = g[k] /\ more[k + 1] = seqs[k + 1]
      BY <1>2, <2>2, <3>1, <3>2
    <3> QED
      BY <3>3, <3>4, <3>5
  <2> HIDE DEF T
  <2> QED
    BY <2>1, <2>2, Induction
<1>6. h[n] = g[n]
  <2>1. n \in T
    <3> HIDE DEF T
    <3> QED
      BY <1>5
  <2> QED
    BY <2>1
<1>7. n + 1 \in 1..(n + 1) /\ (n + 1) - 1 = n
  OBVIOUS
<1>8. FlattenSeq(<<>>) = <<>>
  BY DEF FlattenSeq
<1>9. FlattenSeq(more) = FlattenSeq(seqs) \o x
  BY <1>1, <1>3, <1>4, <1>6, <1>7
<1> QED
  BY <1>3, <1>8, <1>9 DEF more

\* It takes one list after another to one flat sequence after another.
LEMMA FlattenConcat ==
  ASSUME NEW S, NEW s \in Seq(Seq(S)), NEW t \in Seq(Seq(S))
  PROVE  FlattenSeq(s \o t) = FlattenSeq(s) \o FlattenSeq(t)
<1> DEFINE P == {u \in Seq(Seq(S)) : FlattenSeq(s \o u) = FlattenSeq(s) \o FlattenSeq(u)}
<1>1. <<>> \in P
  <2>1. FlattenSeq(<<>>) = <<>> /\ FlattenSeq(s) \in Seq(S)
    BY FlattenAppend, EmptySeq
  <2> QED
    BY <2>1
<1>2. ASSUME NEW u \in Seq(Seq(S)), NEW x \in Seq(S), u \in P
      PROVE  Append(u, x) \in P
  <2>1. s \o Append(u, x) = Append(s \o u, x)
    OBVIOUS
  <2>2. FlattenSeq(Append(s \o u, x)) = FlattenSeq(s \o u) \o x
    <3>1. s \o u \in Seq(Seq(S))
      OBVIOUS
    <3> QED
      BY <3>1, FlattenAppend
  <2>3. FlattenSeq(Append(u, x)) = FlattenSeq(u) \o x
    BY FlattenAppend
  <2>4. FlattenSeq(s) \in Seq(S) /\ FlattenSeq(u) \in Seq(S)
    BY FlattenAppend
  <2>5. (FlattenSeq(s) \o FlattenSeq(u)) \o x = FlattenSeq(s) \o (FlattenSeq(u) \o x)
    BY <2>4, ConcatAssociative, SMTT(30)
  <2> QED
    BY <1>2, <2>1, <2>2, <2>3, <2>5, AppendProperties
<1>3. Seq(Seq(S)) \subseteq P
  <2> HIDE DEF P
  <2> QED
    BY <1>1, <1>2, SeqInduction
<1> QED
  BY <1>3

\* What a function makes of each element, one after the other.
FlatMap(f, l) == FlattenSeq([i \in DOMAIN l |-> f[l[i]]])

\* It goes through a concatenation one part after the other.
LEMMA FlatMapCat ==
  ASSUME NEW X, NEW Y, NEW f \in [X -> Seq(Y)], NEW s \in Seq(X), NEW t \in Seq(X)
  PROVE  FlatMap(f, s \o t) = FlatMap(f, s) \o FlatMap(f, t)
<1> DEFINE map(l) == [i \in DOMAIN l |-> f[l[i]]]
<1>1. ASSUME NEW l \in Seq(X)
      PROVE  /\ map(l) \in Seq(Seq(Y)) /\ Len(map(l)) = Len(l)
             /\ \A i \in 1..Len(l) : map(l)[i] = f[l[i]]
  <2>1. PICK n \in Nat : n = Len(l)
    BY LenProperties
  <2>2. DOMAIN l = 1..n /\ \A i \in 1..n : l[i] \in X
    BY <2>1
  <2> QED
    BY <2>1, <2>2
<1>2. map(s \o t) = map(s) \o map(t)
  <2>1. PICK n \in Nat, m \in Nat : n = Len(s) /\ m = Len(t)
    BY LenProperties
  <2>2. s \o t \in Seq(X) /\ Len(s \o t) = n + m
    BY <2>1, ConcatProperties
  <2>3. map(s) \o map(t) \in Seq(Seq(Y)) /\ Len(map(s) \o map(t)) = n + m
    <3>1. map(s) \in Seq(Seq(Y)) /\ Len(map(s)) = n /\ map(t) \in Seq(Seq(Y)) /\ Len(map(t)) = m
      BY <1>1, <2>1
    <3> HIDE DEF map
    <3> QED
      BY <3>1, ConcatProperties
  <2>4. ASSUME NEW i \in 1..(n + m)
        PROVE  map(s \o t)[i] = (map(s) \o map(t))[i]
    <3>1. map(s \o t)[i] = f[(s \o t)[i]]
      BY <1>1, <2>2
    <3>2. (s \o t)[i] = IF i <= n THEN s[i] ELSE t[i - n]
      BY <2>1, ConcatProperties
    <3>3. (map(s) \o map(t))[i] = IF i <= n THEN map(s)[i] ELSE map(t)[i - n]
      <4>1. map(s) \in Seq(Seq(Y)) /\ Len(map(s)) = n /\ map(t) \in Seq(Seq(Y)) /\ Len(map(t)) = m
        BY <1>1, <2>1
      <4> HIDE DEF map
      <4> QED
        BY <4>1, ConcatProperties
    <3>4. i <= n => i \in 1..n
      OBVIOUS
    <3>5. ~(i <= n) => i - n \in 1..m
      BY <2>1
    <3> HIDE DEF map
    <3> QED
      BY <1>1, <2>1, <3>1, <3>2, <3>3, <3>4, <3>5
  <2>5. map(s \o t) \in Seq(Seq(Y)) /\ Len(map(s \o t)) = n + m
    BY <1>1, <2>2
  <2> HIDE DEF map
  <2> QED
    BY <2>3, <2>4, <2>5, SeqEqual
<1>3. FlatMap(f, s) = FlattenSeq(map(s)) /\ FlatMap(f, t) = FlattenSeq(map(t))
      /\ FlatMap(f, s \o t) = FlattenSeq(map(s \o t))
  BY DEF FlatMap
<1>4. map(s) \in Seq(Seq(Y)) /\ map(t) \in Seq(Seq(Y))
  BY <1>1
<1> HIDE DEF map
<1>5. FlattenSeq(map(s) \o map(t)) = FlattenSeq(map(s)) \o FlattenSeq(map(t))
  BY <1>4, FlattenConcat
<1> QED
  BY <1>2, <1>3, <1>5

\* Its type; what it makes of nothing, and of one element.
LEMMA FlatMapTyped ==
  ASSUME NEW X, NEW Y, NEW f \in [X -> Seq(Y)], NEW s \in Seq(X)
  PROVE  FlatMap(f, s) \in Seq(Y)
<1> DEFINE map == [i \in DOMAIN s |-> f[s[i]]]
<1>1. map \in Seq(Seq(Y))
  <2>1. PICK n \in Nat : n = Len(s)
    BY LenProperties
  <2>2. DOMAIN s = 1..n /\ \A i \in 1..n : s[i] \in X
    BY <2>1
  <2> QED
    BY <2>1, <2>2
<1>2. FlatMap(f, s) = FlattenSeq(map) /\ <<>> \in Seq(Y)
  BY DEF FlatMap
<1> HIDE DEF map
<1> QED
  BY <1>1, <1>2, FlattenAppend

LEMMA FlatMapNone ==
  ASSUME NEW f
  PROVE  FlatMap(f, <<>>) = <<>>
<1>1. [i \in DOMAIN <<>> |-> f[<<>>[i]]] = <<>>
  OBVIOUS
<1> QED
  BY <1>1 DEF FlatMap, FlattenSeq

LEMMA FlatMapOne ==
  ASSUME NEW X, NEW Y, NEW f \in [X -> Seq(Y)], NEW x \in X
  PROVE  FlatMap(f, <<x>>) = f[x]
<1>1. [i \in DOMAIN <<x>> |-> f[<<x>>[i]]] = <<f[x]>>
  OBVIOUS
<1>2. <<f[x]>> = Append(<<>>, f[x]) /\ f[x] \in Seq(Y) /\ <<>> \in Seq(Seq(Y)) /\ <<>> \o f[x] = f[x]
  OBVIOUS
<1> DEFINE e == <<>>
<1>3. FlattenSeq(Append(e, f[x])) = FlattenSeq(e) \o f[x] /\ FlattenSeq(<<>>) = <<>>
  <2>1. e \in Seq(Seq(Y))
    BY <1>2
  <2> HIDE DEF e
  <2> QED
    BY <1>2, <2>1, FlattenAppend
<1> QED
  BY <1>1, <1>2, <1>3 DEF FlatMap

\* The first elements of a sequence, and one more.
LEMMA PrefixGrows ==
  ASSUME NEW S, NEW s \in Seq(S), NEW k \in Nat, k + 1 <= Len(s)
  PROVE  /\ SubSeq(s, 1, k) \in Seq(S) /\ s[k + 1] \in S
         /\ SubSeq(s, 1, k + 1) = Append(SubSeq(s, 1, k), s[k + 1])
<1>1. SubSeq(s, 1, k) \in Seq(S) /\ Len(SubSeq(s, 1, k)) = k /\ s[k + 1] \in S
      /\ \A i \in 1..k : SubSeq(s, 1, k)[i] = s[i]
  OBVIOUS
<1>2. SubSeq(s, 1, k + 1) \in Seq(S) /\ Len(SubSeq(s, 1, k + 1)) = k + 1
      /\ \A i \in 1..(k + 1) : SubSeq(s, 1, k + 1)[i] = s[i]
  OBVIOUS
<1>3. PICK p \in Seq(S) : p = SubSeq(s, 1, k)
  BY <1>1
<1>4. PICK q \in Seq(S) : q = SubSeq(s, 1, k + 1)
  BY <1>2
<1>5. q = Append(p, s[k + 1])
  <2>1. /\ Append(p, s[k + 1]) \in Seq(S) /\ Len(Append(p, s[k + 1])) = k + 1
        /\ \A i \in 1..(k + 1) : Append(p, s[k + 1])[i] = IF i = k + 1 THEN s[k + 1] ELSE p[i]
    BY <1>1, <1>3
  <2>2. \A i \in 1..(k + 1) : q[i] = Append(p, s[k + 1])[i]
    <3>1. \A i \in 1..(k + 1) : i = k + 1 \/ i \in 1..k
      OBVIOUS
    <3> QED
      BY <1>1, <1>2, <1>3, <1>4, <2>1, <3>1
  <2> QED
    BY <1>2, <1>4, <2>1, <2>2, SeqEqual
<1> QED
  BY <1>1, <1>3, <1>4, <1>5
=============================================================================
