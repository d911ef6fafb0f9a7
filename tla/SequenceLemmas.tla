--------------------------- MODULE SequenceLemmas ---------------------------
(***************************************************************************)
(* Facts about numbers and sequences that the proofs of several modules    *)
(* use.  Induction is stated over sets: to show something of every number, *)
(* give the set of numbers it holds of.                                    *)
(***************************************************************************)
EXTENDS Integers, Sequences, FiniteSets, SequencesExt, TLAPS, FiniteSetTheorems,
        SequenceTheorems, WellFoundedInduction

-----------------------------------------------------------------------------
(* Induction. *)

\* A set of natural numbers that is not empty has a least element.
LEMMA LeastNatural ==
    ASSUME NEW S \in SUBSET Nat, S # {}
    PROVE  \E i \in S : \A j \in S : i <= j
<1>1. IsWellFoundedOn(OpToRel(<, Nat), Nat)
  BY NatLessThanWellFounded
<1>2. PICK i \in S : \A j \in S : ~(<<j, i>> \in OpToRel(<, Nat))
  BY <1>1, WFMin
<1>3. ASSUME NEW j \in S PROVE ~(j < i)
  <2>1. j \in Nat /\ i \in Nat
    OBVIOUS
  <2>2. <<j, i>> \in Nat \X Nat /\ <<j, i>>[1] = j /\ <<j, i>>[2] = i
    BY <2>1
  <2>3. j < i => <<j, i>> \in OpToRel(<, Nat)
    BY <2>2 DEF OpToRel
  <2> QED BY <1>2, <2>3
<1>4. \A j \in S : i <= j
  BY <1>3
<1> QED BY <1>4

\* What holds of 0, and of the next number with each below n, holds up to n.
LEMMA Upwards ==
    ASSUME NEW n \in Nat, NEW G, 0 \in G,
           \A i \in 0..(n - 1) : i \in G => i + 1 \in G
    PROVE  0..n \subseteq G
<1> DEFINE S == (0..n) \ G
<1> SUFFICES ASSUME S # {} PROVE FALSE
  OBVIOUS
<1>1. S \in SUBSET Nat
  OBVIOUS
<1>2. PICK i \in S : \A j \in S : i <= j
  BY <1>1, LeastNatural
<1>3. i # 0 /\ i \in 0..n
  OBVIOUS
<1>4. i - 1 \in 0..(n - 1) /\ i - 1 \in 0..n /\ (i - 1) + 1 = i
  BY <1>3
<1>5. i - 1 \in G
  BY <1>2, <1>4
<1> QED BY <1>2, <1>4, <1>5

\* A set of numbers from 1 to n that is not empty has a greatest element.
LEMMA MaxOf ==
    ASSUME NEW n \in Nat, NEW s \in SUBSET (1..n), s # {}
    PROVE  /\ Max(s) \in s
           /\ \A y \in s : y <= Max(s)
<1> DEFINE D == {n - y : y \in s}
<1>1. D \in SUBSET Nat /\ D # {}
  <2>1. \A y \in s : y \in 1..n /\ n - y \in Nat
    OBVIOUS
  <2> QED BY <2>1
<1>2. PICK d \in D : \A x \in D : d <= x
  BY <1>1, LeastNatural
<1>3. PICK x \in s : d = n - x
  OBVIOUS
<1>4. \A y \in s : n - x <= n - y
  BY <1>2, <1>3
<1>5. \A y \in s : x >= y
  BY <1>4
<1>6. \E z \in s : \A y \in s : z >= y
  BY <1>5
<1>7. Max(s) \in s /\ \A y \in s : Max(s) >= y
  BY <1>6 DEF Max
<1> QED BY <1>7

\* A set of numbers up to m that has m has m as its greatest.
LEMMA MaxIs ==
    ASSUME NEW m \in Nat, NEW s \in SUBSET (1..m), m \in s
    PROVE  Max(s) = m
<1>1. Max(s) \in s /\ m <= Max(s)
  BY MaxOf
<1>2. Max(s) \in 1..m
  BY <1>1
<1> QED BY <1>1, <1>2

\* What holds of no numbers, and of every set with whatever it holds of its
\* lower part, holds of every set of numbers up to n.
LEMMA SubsetsUpwards ==
    ASSUME NEW n \in Nat, NEW G, {} \in G,
           \A s \in SUBSET (1..n) : s # {} /\ s \ {Max(s)} \in G => s \in G
    PROVE  SUBSET (1..n) \subseteq G
<1> DEFINE H == {m \in 0..n : SUBSET (1..m) \subseteq G}
<1>1. 0 \in H
  <2>1. 1..0 = {}
    OBVIOUS
  <2>2. SUBSET (1..0) \subseteq G
    BY <2>1
  <2>3. 0 \in 0..n
    OBVIOUS
  <2> QED BY <2>2, <2>3
<1>2. ASSUME NEW m \in 0..(n - 1), m \in H PROVE m + 1 \in H
  <2>1. m \in Nat /\ m + 1 \in 0..n
    OBVIOUS
  <2>2. ASSUME NEW s \in SUBSET (1..(m + 1)) PROVE s \in G
    <3>1. CASE m + 1 \in s
      <4>1. Max(s) = m + 1
        BY <2>1, <3>1, MaxIs
      <4>2. s \ {m + 1} \in SUBSET (1..m)
        BY <2>1
      <4>3. s \ {Max(s)} \in G
        BY <1>2, <4>1, <4>2
      <4>4. s \in SUBSET (1..n) /\ s # {}
        BY <2>1, <3>1
      <4> QED BY <4>3, <4>4
    <3>2. CASE m + 1 \notin s
      <4>1. s \in SUBSET (1..m)
        BY <2>1, <3>2
      <4> QED BY <1>2, <4>1
    <3> QED BY <3>1, <3>2
  <2> QED BY <2>1, <2>2
<1> HIDE DEF H
<1>3. 0..n \subseteq H
  BY <1>1, <1>2, Upwards
<1>4. n \in H
  BY <1>3
<1> QED BY <1>4 DEF H
-----------------------------------------------------------------------------
(* Folds.  FoldLeft is a function over the sets of positions, chosen to     *)
(* satisfy its recursive equation; what follows shows that there is one.    *)

\* The equation, for a step that is a function of state and position.
FoldsBy(iter, n, base, step) ==
    iter = [s \in SUBSET (1..n) |->
              IF s = {} THEN base ELSE step[<<iter[s \ {Max(s)}], Max(s)>>]]

\* There is a fold over the positions up to any n.
LEMMA FoldExists ==
    ASSUME NEW D, NEW base \in D, NEW n \in Nat, NEW step \in [D \X (1..n) -> D]
    PROVE  \E iter \in [SUBSET (1..n) -> D] : FoldsBy(iter, n, base, step)
<1> DEFINE H == {m \in 0..n : \E iter \in [SUBSET (1..m) -> D] :
                    FoldsBy(iter, m, base, step)}
<1>1. 0 \in H
  <2> DEFINE iter == [s \in SUBSET (1..0) |-> base]
  <2>1. \A s \in SUBSET (1..0) : s = {}
    OBVIOUS
  <2>2. iter \in [SUBSET (1..0) -> D] /\ FoldsBy(iter, 0, base, step)
    BY <2>1 DEF FoldsBy
  <2>3. 0 \in 0..n
    OBVIOUS
  <2> QED BY <2>2, <2>3
<1>2. ASSUME NEW m \in 0..(n - 1), m \in H PROVE m + 1 \in H
  <2>1. m \in Nat /\ m + 1 \in 0..n /\ m + 1 \in 1..n
    OBVIOUS
  <2>2. PICK iter \in [SUBSET (1..m) -> D] : FoldsBy(iter, m, base, step)
    BY <1>2
  <2> DEFINE next == [s \in SUBSET (1..(m + 1)) |->
                        IF m + 1 \in s THEN step[<<iter[s \ {m + 1}], m + 1>>] ELSE iter[s]]
  <2>3. ASSUME NEW s \in SUBSET (1..(m + 1)), m + 1 \in s
        PROVE  /\ next[s] \in D
               /\ next[s] = step[<<next[s \ {Max(s)}], Max(s)>>]
    <3>1. Max(s) = m + 1
      BY <2>1, <2>3, MaxIs
    <3>2. s \ {m + 1} \in SUBSET (1..m) /\ s \ {m + 1} \in SUBSET (1..(m + 1))
      BY <2>1
    <3>3. next[s \ {m + 1}] = iter[s \ {m + 1}]
      BY <3>2
    <3>4. iter[s \ {m + 1}] \in D
      BY <3>2
    <3>5. step[<<iter[s \ {m + 1}], m + 1>>] \in D
      BY <2>1, <3>4
    <3> QED BY <2>3, <3>1, <3>3, <3>5
  <2>4. ASSUME NEW s \in SUBSET (1..(m + 1)), m + 1 \notin s, s # {}
        PROVE  /\ next[s] \in D
               /\ next[s] = step[<<next[s \ {Max(s)}], Max(s)>>]
    <3>1. s \in SUBSET (1..m)
      BY <2>1, <2>4
    <3>2. s \ {Max(s)} \in SUBSET (1..m) /\ s \ {Max(s)} \in SUBSET (1..(m + 1))
      BY <3>1
    <3>3. next[s] = iter[s] /\ next[s \ {Max(s)}] = iter[s \ {Max(s)}]
      BY <2>4, <3>1, <3>2
    <3>4. iter[s] = step[<<iter[s \ {Max(s)}], Max(s)>>] /\ iter[s] \in D
      BY <2>2, <2>4, <3>1 DEF FoldsBy
    <3> QED BY <3>3, <3>4
  <2>5. next[{}] = base
    <3>1. {} \in SUBSET (1..m) /\ {} \in SUBSET (1..(m + 1))
      OBVIOUS
    <3>2. iter[{}] = base
      BY <2>2, <3>1 DEF FoldsBy
    <3> QED BY <3>1, <3>2
  <2>6. DOMAIN next = SUBSET (1..(m + 1))
    OBVIOUS
  <2> HIDE DEF next
  <2>7. \A s \in SUBSET (1..(m + 1)) :
           next[s] = IF s = {} THEN base ELSE step[<<next[s \ {Max(s)}], Max(s)>>]
    BY <2>3, <2>4, <2>5
  <2>8. \A s \in SUBSET (1..(m + 1)) : next[s] \in D
    BY <2>3, <2>4, <2>5
  <2>9. next = [s \in SUBSET (1..(m + 1)) |-> next[s]]
    BY <2>6 DEF next
  <2>10. next \in [SUBSET (1..(m + 1)) -> D]
    BY <2>8, <2>9
  <2>11. FoldsBy(next, m + 1, base, step)
    BY <2>7, <2>9 DEF FoldsBy
  <2> QED BY <2>1, <2>10, <2>11
<1> HIDE DEF H
<1>3. 0..n \subseteq H
  BY <1>1, <1>2, Upwards
<1>4. n \in H
  BY <1>3
<1> QED BY <1>4 DEF H

-----------------------------------------------------------------------------
(* Sequences built piece by piece. *)

\* FlattenSeq is a concatenation that grows by one piece at a time.
LEMMA FlattenGrows ==
    ASSUME NEW T, NEW seqs \in Seq(Seq(T))
    PROVE  \E f \in [0..Len(seqs) -> Seq(T)] :
              /\ f[0] = <<>>
              /\ \A i \in 1..Len(seqs) : f[i] = f[i - 1] \o seqs[i]
              /\ FlattenSeq(seqs) = f[Len(seqs)]
<1> DEFINE n == Len(seqs)
<1>0. n \in Nat /\ DOMAIN seqs = 1..n /\ \A i \in 1..n : seqs[i] \in Seq(T)
  OBVIOUS
<1> HIDE DEF n
<1> DEFINE Grows(f, m) == f[0] = <<>> /\ \A i \in 1..m : f[i] = f[i - 1] \o seqs[i]
           H == {m \in 0..n : \E f \in [0..m -> Seq(T)] : Grows(f, m)}
<1>1. 0 \in H
  <2> DEFINE f == [i \in 0..0 |-> <<>>]
  <2>0. <<>> \in Seq(T) /\ 0 \in 0..0
    OBVIOUS
  <2>1. f \in [0..0 -> Seq(T)] /\ Grows(f, 0)
    BY <2>0
  <2>2. 0 \in 0..n
    BY <1>0
  <2> QED BY <2>1, <2>2
<1>2. ASSUME NEW m \in 0..(n - 1), m \in H PROVE m + 1 \in H
  <2>1. PICK f \in [0..m -> Seq(T)] : Grows(f, m)
    BY <1>2
  <2>2. m \in Nat /\ m + 1 \in 0..n /\ m + 1 \in 1..n
    BY <1>0
  <2> DEFINE g == [i \in 0..(m + 1) |-> IF i = m + 1 THEN f[m] \o seqs[m + 1] ELSE f[i]]
  <2>3. f[m] \o seqs[m + 1] \in Seq(T)
    <3>1. f[m] \in Seq(T) /\ seqs[m + 1] \in Seq(T)
      BY <1>0, <2>2
    <3> QED BY <3>1
  <2>4. g \in [0..(m + 1) -> Seq(T)]
    BY <2>2, <2>3
  <2>5. g[m + 1] = g[m] \o seqs[m + 1] /\ g[0] = <<>>
    BY <2>1, <2>2
  <2>6. ASSUME NEW i \in 1..m PROVE g[i] = g[i - 1] \o seqs[i]
    <3>1. i \in 0..m /\ i - 1 \in 0..m /\ i # m + 1 /\ i - 1 # m + 1
      BY <2>2
    <3>2. g[i] = f[i] /\ g[i - 1] = f[i - 1]
      BY <2>2, <3>1
    <3> QED BY <2>1, <3>2
  <2> HIDE DEF g
  <2>7. ASSUME NEW i \in 1..(m + 1) PROVE g[i] = g[i - 1] \o seqs[i]
    <3>1. CASE i = m + 1
      <4>1. i - 1 = m
        BY <2>2, <3>1
      <4> QED BY <2>5, <3>1, <4>1
    <3>2. CASE i # m + 1
      <4>1. i \in 1..m
        BY <2>2, <3>2
      <4> QED BY <2>6, <4>1
    <3> QED BY <3>1, <3>2
  <2>8. Grows(g, m + 1)
    BY <2>5, <2>7
  <2> QED BY <2>2, <2>4, <2>8
<1>3. n \in H
  <2> HIDE DEF H
  <2>1. 0..n \subseteq H
    BY <1>0, <1>1, <1>2, Upwards
  <2> QED BY <1>0, <2>1
<1>4. PICK f \in [0..n -> Seq(T)] : Grows(f, n)
  BY <1>3
<1>5. CASE n = 0
  <2>1. FlattenSeq(seqs) = seqs /\ seqs = <<>>
    BY <1>5 DEF FlattenSeq, n
  <2> QED BY <1>4, <1>5, <2>1 DEF n
<1>6. CASE n # 0
  <2> DEFINE Flat(g) == g = [i \in 1..n |-> IF i = 1 THEN seqs[i] ELSE g[i - 1] \o seqs[i]]
             h == [i \in 1..n |-> f[i]]
             g == CHOOSE x : Flat(x)
  <2>1. FlattenSeq(seqs) = g[n]
    BY <1>6 DEF FlattenSeq, n
  <2>2. Flat(h)
    <3>1. ASSUME NEW i \in 1..n
          PROVE  h[i] = IF i = 1 THEN seqs[i] ELSE h[i - 1] \o seqs[i]
      <4>0. f[i] = f[i - 1] \o seqs[i] /\ h[i] = f[i] /\ seqs[i] \in Seq(T)
        BY <1>0, <1>4
      <4>1. CASE i = 1
        <5>1. f[i - 1] = <<>>
          BY <1>4, <4>1
        <5> QED BY <4>0, <4>1, <5>1
      <4>2. CASE i # 1
        <5>1. i - 1 \in 1..n
          BY <1>0, <4>2
        <5> QED BY <4>0, <4>2, <5>1
      <4> QED BY <4>1, <4>2
    <3> QED BY <3>1
  <2>3. Flat(g)
    BY <2>2
  <2> HIDE DEF g
  <2> DEFINE G == {i \in 0..n : i # 0 => g[i] = f[i]}
  <2>4. 0 \in G
    BY <1>0
  <2>5. ASSUME NEW i \in 0..(n - 1), i \in G PROVE i + 1 \in G
    <3>1. i + 1 \in 1..n /\ i + 1 \in 0..n /\ (i + 1) - 1 = i
      BY <1>0
    <3>2. f[i + 1] = f[i] \o seqs[i + 1]
      BY <1>4, <3>1
    <3>3. g[i + 1] = IF i + 1 = 1 THEN seqs[i + 1] ELSE g[i] \o seqs[i + 1]
      BY <2>3, <3>1
    <3>4. i = 0 => g[i + 1] = f[i + 1]
      <4>1. seqs[i + 1] \in Seq(T)
        BY <1>0, <3>1
      <4>2. ASSUME i = 0 PROVE g[i + 1] = f[i + 1]
        <5>1. f[i] = <<>> /\ i + 1 = 1
          BY <1>4, <4>2
        <5>2. f[i + 1] = seqs[i + 1]
          BY <3>2, <4>1, <5>1
        <5> QED BY <3>3, <5>1, <5>2
      <4> QED BY <4>2
    <3>5. i # 0 => g[i + 1] = f[i + 1]
      <4>1. ASSUME i # 0 PROVE g[i + 1] = f[i + 1]
        <5>1. g[i] = f[i] /\ i + 1 # 1
          BY <1>0, <2>5, <4>1
        <5> QED BY <3>2, <3>3, <5>1
      <4> QED BY <4>1
    <3> QED BY <3>1, <3>4, <3>5
  <2>6. n \in G
    <3> HIDE DEF G
    <3>1. 0..n \subseteq G
      BY <1>0, <2>4, <2>5, Upwards
    <3> QED BY <1>0, <3>1
  <2>7. n \in 0..n
    BY <1>0
  <2>8. FlattenSeq(seqs) = f[n]
    BY <1>6, <2>1, <2>6
  <2> QED BY <1>4, <2>8 DEF n
<1> QED BY <1>5, <1>6

\* Whatever is in one of the sequences is in their concatenation.
LEMMA FlattenHas ==
    ASSUME NEW T, NEW seqs \in Seq(Seq(T)), NEW i \in 1..Len(seqs), NEW j \in 1..Len(seqs[i])
    PROVE  /\ FlattenSeq(seqs) \in Seq(T)
           /\ \E k \in 1..Len(FlattenSeq(seqs)) : FlattenSeq(seqs)[k] = seqs[i][j]
<1> DEFINE n == Len(seqs)
           x == seqs[i][j]
<1>1. PICK f \in [0..n -> Seq(T)] :
         /\ f[0] = <<>>
         /\ \A k \in 1..n : f[k] = f[k - 1] \o seqs[k]
         /\ FlattenSeq(seqs) = f[n]
  BY FlattenGrows
<1>2. n \in Nat /\ i \in 1..n /\ \A k \in 1..n : seqs[k] \in Seq(T)
  OBVIOUS
<1> DEFINE Has(s) == \E k \in 1..Len(s) : s[k] = x
           G == {k \in 0..n : k >= i => Has(f[k])}
<1>3. 0 \in G
  BY <1>2
<1>4. ASSUME NEW k \in 0..(n - 1), k \in G PROVE k + 1 \in G
  <2> DEFINE old == f[k]
             piece == seqs[k + 1]
             new == f[k + 1]
  <2>1. k + 1 \in 1..n /\ k \in 0..n /\ k + 1 \in 0..n /\ (k + 1) - 1 = k
    BY <1>2
  <2>2. old \in Seq(T) /\ piece \in Seq(T) /\ new = old \o piece
    BY <1>1, <1>2, <2>1
  <2>3. k >= i => Has(old)
    BY <1>4
  <2>4. k + 1 = i => Has(piece)
    BY <1>2
  <2>5. k + 1 >= i => Has(new)
    <3> HIDE DEF old, piece, new, x
    <3>1. /\ Len(old) \in Nat /\ Len(piece) \in Nat /\ Len(new) = Len(old) + Len(piece)
          /\ \A l \in 1..Len(old) : l \in 1..Len(new) /\ new[l] = old[l]
          /\ \A l \in 1..Len(piece) : Len(old) + l \in 1..Len(new) /\ new[Len(old) + l] = piece[l]
      BY <2>2
    <3>2. Has(old) \/ Has(piece) => Has(new)
      BY <3>1
    <3> QED BY <1>2, <2>1, <2>3, <2>4, <3>2
  <2> QED BY <2>1, <2>5
<1>5. n \in G
  <2> HIDE DEF G, n
  <2>1. 0..n \subseteq G
    BY <1>2, <1>3, <1>4, Upwards
  <2>2. n \in 0..n
    BY <1>2
  <2> QED BY <2>1, <2>2
<1>6. f[n] \in Seq(T) /\ Has(f[n])
  <2> HIDE DEF Has, n
  <2>1. n \in 0..n /\ n >= i
    BY <1>2
  <2> QED BY <1>1, <1>5, <2>1
<1> QED BY <1>1, <1>6

\* F is read from the sequences, its k-th from place p[k] of sequence s[k].
ReadFrom(F, seqs, s, p) ==
    \A k \in 1..Len(F) : /\ s[k] \in 1..Len(seqs) /\ p[k] \in 1..Len(seqs[s[k]])
                         /\ F[k] = seqs[s[k]][p[k]]

RunsOn(F, s, p) ==
    \A k, l \in 1..Len(F) : k < l => s[k] < s[l] \/ (s[k] = s[l] /\ p[k] < p[l])

\* What is in a concatenation comes from one place of one of the sequences,
\* and in their order.
LEMMA FlattenInOrder ==
    ASSUME NEW T, NEW seqs \in Seq(Seq(T))
    PROVE  /\ FlattenSeq(seqs) \in Seq(T)
           /\ \E src, pos \in [1..Len(FlattenSeq(seqs)) -> Nat] :
                ReadFrom(FlattenSeq(seqs), seqs, src, pos) /\ RunsOn(FlattenSeq(seqs), src, pos)
<1> DEFINE n == Len(seqs)
<1>1. PICK f \in [0..n -> Seq(T)] :
         /\ f[0] = <<>>
         /\ \A k \in 1..n : f[k] = f[k - 1] \o seqs[k]
         /\ FlattenSeq(seqs) = f[n]
  BY FlattenGrows
<1>2. n \in Nat /\ \A k \in 1..n : seqs[k] \in Seq(T)
  OBVIOUS
<1> DEFINE From(m, s, p) ==
              /\ \A k \in 1..Len(f[m]) : /\ s[k] \in 1..m /\ p[k] \in 1..Len(seqs[s[k]])
                                         /\ f[m][k] = seqs[s[k]][p[k]]
              /\ \A k, l \in 1..Len(f[m]) :
                    k < l => s[k] < s[l] \/ (s[k] = s[l] /\ p[k] < p[l])
           Traced(m) == \E s, p \in [1..Len(f[m]) -> Nat] : From(m, s, p)
           G == {m \in 0..n : Traced(m)}
<1> HIDE DEF n
<1>3. 0 \in G
  <2>1. Len(f[0]) = 0 /\ 0 \in 0..n
    BY <1>1, <1>2
  <2> DEFINE z == [k \in 1..Len(f[0]) |-> 0]
  <2>2. z \in [1..Len(f[0]) -> Nat]
    OBVIOUS
  <2>3. \A k \in 1..Len(f[0]) : FALSE
    BY <2>1
  <2> HIDE DEF z
  <2>4. From(0, z, z)
    BY <2>3
  <2> HIDE DEF From
  <2>5. Traced(0)
    BY <2>2, <2>4
  <2> QED BY <2>1, <2>5
<1>4. ASSUME NEW m \in 0..(n - 1), m \in G PROVE m + 1 \in G
  <2> DEFINE old == f[m]
             piece == seqs[m + 1]
             new == f[m + 1]
  <2>1. m + 1 \in 1..n /\ m \in 0..n /\ m + 1 \in 0..n /\ (m + 1) - 1 = m /\ m \in Nat
    BY <1>2
  <2>2. old \in Seq(T) /\ piece \in Seq(T) /\ new = old \o piece
    BY <1>1, <1>2, <2>1
  <2>3. \E s, p \in [1..Len(old) -> Nat] :
           /\ \A k \in 1..Len(old) : /\ s[k] \in 1..m /\ p[k] \in 1..Len(seqs[s[k]])
                                     /\ old[k] = seqs[s[k]][p[k]]
           /\ \A k, l \in 1..Len(old) :
                 k < l => s[k] < s[l] \/ (s[k] = s[l] /\ p[k] < p[l])
    BY <1>4
  <2> HIDE DEF old, piece, new, G
  <2>4. PICK s \in [1..Len(old) -> Nat], p \in [1..Len(old) -> Nat] :
           /\ \A k \in 1..Len(old) : /\ s[k] \in 1..m /\ p[k] \in 1..Len(seqs[s[k]])
                                     /\ old[k] = seqs[s[k]][p[k]]
           /\ \A k, l \in 1..Len(old) :
                 k < l => s[k] < s[l] \/ (s[k] = s[l] /\ p[k] < p[l])
    BY <2>3
  <2>5. /\ Len(old) \in Nat /\ Len(piece) \in Nat /\ Len(new) = Len(old) + Len(piece)
        /\ \A l \in 1..Len(old) : new[l] = old[l]
        /\ \A l \in 1..Len(piece) : new[Len(old) + l] = piece[l]
    BY <2>2
  <2> DEFINE s2 == [k \in 1..Len(new) |-> IF k <= Len(old) THEN s[k] ELSE m + 1]
             p2 == [k \in 1..Len(new) |-> IF k <= Len(old) THEN p[k] ELSE k - Len(old)]
  <2>6. ASSUME NEW k \in 1..Len(new), k <= Len(old)
        PROVE  /\ s2[k] = s[k] /\ p2[k] = p[k] /\ k \in 1..Len(old)
               /\ s[k] \in Nat /\ p[k] \in Nat
    <3>1. k \in 1..Len(old)
      BY <2>5, <2>6
    <3>2. s[k] \in Nat /\ p[k] \in Nat
      BY <3>1
    <3> QED BY <2>6, <3>1, <3>2
  <2>7. ASSUME NEW k \in 1..Len(new), ~(k <= Len(old))
        PROVE  /\ s2[k] = m + 1 /\ p2[k] = k - Len(old) /\ p2[k] \in 1..Len(piece)
               /\ Len(old) + p2[k] = k
    BY <2>5, <2>7
  <2>8. \A k \in 1..Len(new) : s2[k] \in Nat /\ p2[k] \in Nat
    <3> SUFFICES ASSUME NEW k \in 1..Len(new) PROVE s2[k] \in Nat /\ p2[k] \in Nat
      OBVIOUS
    <3>1. CASE k <= Len(old)
      BY <2>6, <3>1
    <3>2. CASE ~(k <= Len(old))
      BY <2>1, <2>5, <2>7, <3>2
    <3> QED BY <3>1, <3>2
  <2>9. s2 \in [1..Len(new) -> Nat] /\ p2 \in [1..Len(new) -> Nat]
    <3>1. s2 = [k \in 1..Len(new) |-> s2[k]] /\ p2 = [k \in 1..Len(new) |-> p2[k]]
      OBVIOUS
    <3> HIDE DEF s2, p2
    <3> QED BY <2>8, <3>1
  <2> HIDE DEF s2, p2
  <2>10. ASSUME NEW k \in 1..Len(new)
         PROVE  s2[k] \in 1..(m + 1) /\ p2[k] \in 1..Len(seqs[s2[k]]) /\ new[k] = seqs[s2[k]][p2[k]]
    <3>1. CASE k <= Len(old)
      <4>1. s2[k] = s[k] /\ p2[k] = p[k] /\ k \in 1..Len(old)
        BY <2>6, <3>1
      <4>2. s[k] \in 1..m /\ p[k] \in 1..Len(seqs[s[k]]) /\ new[k] = seqs[s[k]][p[k]]
        BY <2>4, <2>5, <4>1
      <4>3. s[k] \in 1..(m + 1)
        BY <2>1, <4>2
      <4> QED BY <4>1, <4>2, <4>3
    <3>2. CASE ~(k <= Len(old))
      <4>1. /\ s2[k] = m + 1 /\ p2[k] \in 1..Len(piece) /\ Len(old) + p2[k] = k
        BY <2>7, <3>2
      <4>2. new[k] = piece[p2[k]]
        BY <2>5, <4>1
      <4>3. m + 1 \in 1..(m + 1)
        BY <2>1
      <4> QED BY <4>1, <4>2, <4>3 DEF piece
    <3> QED BY <3>1, <3>2
  <2>11. ASSUME NEW k \in 1..Len(new), NEW l \in 1..Len(new), k < l
         PROVE  s2[k] < s2[l] \/ (s2[k] = s2[l] /\ p2[k] < p2[l])
    <3>1. CASE k <= Len(old) /\ l <= Len(old)
      <4>1. /\ s2[k] = s[k] /\ p2[k] = p[k] /\ k \in 1..Len(old)
            /\ s2[l] = s[l] /\ p2[l] = p[l] /\ l \in 1..Len(old)
        BY <2>6, <3>1
      <4>2. s[k] < s[l] \/ (s[k] = s[l] /\ p[k] < p[l])
        BY <2>4, <2>11, <4>1
      <4> QED BY <4>1, <4>2
    <3>2. CASE k <= Len(old) /\ ~(l <= Len(old))
      <4>1. s2[k] \in 1..m
        BY <2>4, <2>6, <3>2
      <4>2. s2[l] = m + 1
        BY <2>7, <3>2
      <4> QED BY <2>1, <4>1, <4>2
    <3>3. CASE ~(k <= Len(old)) /\ ~(l <= Len(old))
      <4>1. s2[k] = m + 1 /\ p2[k] = k - Len(old) /\ s2[l] = m + 1 /\ p2[l] = l - Len(old)
        BY <2>7, <3>3
      <4> QED BY <2>5, <2>11, <4>1
    <3>4. ~(k <= Len(old)) => ~(l <= Len(old))
      BY <2>5, <2>11
    <3> QED BY <3>1, <3>2, <3>3, <3>4
  <2>12. \E u, v \in [1..Len(new) -> Nat] :
            /\ \A k \in 1..Len(new) : /\ u[k] \in 1..(m + 1) /\ v[k] \in 1..Len(seqs[u[k]])
                                      /\ new[k] = seqs[u[k]][v[k]]
            /\ \A k, l \in 1..Len(new) :
                  k < l => u[k] < u[l] \/ (u[k] = u[l] /\ v[k] < v[l])
    BY <2>9, <2>10, <2>11
  <2> QED BY <2>1, <2>12 DEF new, G
<1>5. Traced(n)
  <2> HIDE DEF Traced
  <2>1. G \subseteq 0..n /\ \A m \in G : Traced(m)
    OBVIOUS
  <2> HIDE DEF G
  <2>2. 0..n \subseteq G
    BY <1>2, <1>3, <1>4, Upwards
  <2>3. n \in 0..n
    BY <1>2
  <2> QED BY <2>1, <2>2, <2>3
<1>6. PICK s \in [1..Len(f[n]) -> Nat], p \in [1..Len(f[n]) -> Nat] : From(n, s, p)
  BY <1>5
<1> DEFINE F == FlattenSeq(seqs)
<1>7. F = f[n] /\ f[n] \in Seq(T)
  BY <1>1, <1>2
<1> HIDE DEF F
<1>8. s \in [1..Len(F) -> Nat] /\ p \in [1..Len(F) -> Nat]
  BY <1>6, <1>7
<1>9. ReadFrom(F, seqs, s, p) /\ RunsOn(F, s, p)
  BY <1>6, <1>7 DEF ReadFrom, RunsOn, n
<1>10. F \in Seq(T)
  BY <1>7
<1> QED BY <1>8, <1>9, <1>10 DEF F

\* Places that run on are places of their own.
LEMMA RunningOnApart ==
    ASSUME NEW n \in Nat, NEW src \in [1..n -> Nat], NEW pos \in [1..n -> Nat],
           \A k, l \in 1..n : k < l => src[k] < src[l] \/ (src[k] = src[l] /\ pos[k] < pos[l])
    PROVE  \A k, l \in 1..n : src[k] = src[l] /\ pos[k] = pos[l] => k = l
<1> SUFFICES ASSUME NEW k \in 1..n, NEW l \in 1..n, src[k] = src[l], pos[k] = pos[l]
             PROVE  k = l
  OBVIOUS
<1>1. src[k] \in Nat /\ pos[k] \in Nat
  OBVIOUS
<1>2. ~(k < l) /\ ~(l < k)
  BY <1>1
<1> QED BY <1>2

\* What is in a concatenation comes from a place of its own.
LEMMA FlattenFrom ==
    ASSUME NEW T, NEW seqs \in Seq(Seq(T))
    PROVE  /\ FlattenSeq(seqs) \in Seq(T)
           /\ \E src, pos \in [1..Len(FlattenSeq(seqs)) -> Nat] :
                /\ \A k \in 1..Len(FlattenSeq(seqs)) :
                     /\ src[k] \in 1..Len(seqs) /\ pos[k] \in 1..Len(seqs[src[k]])
                     /\ FlattenSeq(seqs)[k] = seqs[src[k]][pos[k]]
                /\ \A k, l \in 1..Len(FlattenSeq(seqs)) :
                     src[k] = src[l] /\ pos[k] = pos[l] => k = l
<1> DEFINE F == FlattenSeq(seqs)
<1>1. F \in Seq(T) /\ \E s, p \in [1..Len(F) -> Nat] : ReadFrom(F, seqs, s, p) /\ RunsOn(F, s, p)
  BY FlattenInOrder
<1> HIDE DEF F
<1>2. PICK s \in [1..Len(F) -> Nat], p \in [1..Len(F) -> Nat] :
         ReadFrom(F, seqs, s, p) /\ RunsOn(F, s, p)
  BY <1>1
<1>3. Len(F) \in Nat
  BY <1>1
<1>4. \A k, l \in 1..Len(F) : s[k] = s[l] /\ p[k] = p[l] => k = l
  <2> DEFINE n == Len(F)
  <2>1. /\ n \in Nat /\ s \in [1..n -> Nat] /\ p \in [1..n -> Nat]
        /\ \A k, l \in 1..n : k < l => s[k] < s[l] \/ (s[k] = s[l] /\ p[k] < p[l])
    BY <1>2, <1>3 DEF RunsOn
  <2> HIDE DEF n
  <2>2. \A k, l \in 1..n : s[k] = s[l] /\ p[k] = p[l] => k = l
    BY ONLY <2>1, RunningOnApart
  <2> QED BY <2>2 DEF n
<1>5. \A k \in 1..Len(F) : /\ s[k] \in 1..Len(seqs) /\ p[k] \in 1..Len(seqs[s[k]])
                           /\ F[k] = seqs[s[k]][p[k]]
  BY <1>2 DEF ReadFrom
<1>6. \E src, pos \in [1..Len(F) -> Nat] :
        /\ \A k \in 1..Len(F) :
             /\ src[k] \in 1..Len(seqs) /\ pos[k] \in 1..Len(seqs[src[k]])
             /\ F[k] = seqs[src[k]][pos[k]]
        /\ \A k, l \in 1..Len(F) : src[k] = src[l] /\ pos[k] = pos[l] => k = l
  BY <1>2, <1>4, <1>5
<1> QED BY <1>1, <1>6 DEF F

\* An order of a finite set names each of its members once.
LEMMA OrderOf ==
    ASSUME NEW S, IsFiniteSet(S), NEW o \in SetToSeqs(S)
    PROVE  /\ o \in Seq(S)
           /\ \A x \in S : \E i \in 1..Len(o) : o[i] = x
           /\ \A i, j \in 1..Len(o) : o[i] = o[j] => i = j
<1> DEFINE n == Cardinality(S)
<1>1. n \in Nat
  BY FS_CardinalityType
<1>2. o \in [1..n -> S] /\ \A i, j \in 1..n : i # j => o[i] # o[j]
  BY DEF SetToSeqs
<1>3. o \in Seq(S) /\ Len(o) = n
  BY <1>1, <1>2
<1>4. o \in Injection(1..n, S)
  BY <1>2 DEF Injection, IsInjective
<1>5. Cardinality(1..n) = n
  BY <1>1, FS_Interval
<1>6. o \in Surjection(1..n, S)
  BY <1>4, <1>5, FS_Injection
<1> QED BY <1>2, <1>3, <1>6 DEF Surjection

\* The sequence of a finite set names each of its members once.
LEMMA SetAsSequence ==
    ASSUME NEW S, IsFiniteSet(S)
    PROVE  /\ SetToSeq(S) \in Seq(S)
           /\ \A x \in S : \E i \in 1..Len(SetToSeq(S)) : SetToSeq(S)[i] = x
           /\ \A i, j \in 1..Len(SetToSeq(S)) : SetToSeq(S)[i] = SetToSeq(S)[j] => i = j
           /\ Len(SetToSeq(S)) = Cardinality(S)
<1> DEFINE n == Cardinality(S)
<1>1. n \in Nat /\ ExistsBijection(1..n, S)
  BY FS_CardinalityType
<1>2. PICK g : g \in Bijection(1..n, S)
  BY <1>1 DEF ExistsBijection
<1>3. g \in [1..n -> S] /\ IsInjective(g)
  BY <1>2 DEF Bijection, Injection, IsInjective
<1>4. SetToSeq(S) \in [1..n -> S] /\ IsInjective(SetToSeq(S))
  BY <1>3 DEF SetToSeq
<1>5. SetToSeq(S) \in SetToSeqs(S)
  BY <1>4 DEF SetToSeqs, IsInjective
<1>6. Len(SetToSeq(S)) = n
  BY <1>1, <1>4
<1> QED BY <1>5, <1>6, OrderOf

\* A function has no more values than arguments.
LEMMA ImageFinite ==
    ASSUME NEW S, IsFiniteSet(S), NEW f, f = [x \in S |-> f[x]]
    PROVE  /\ IsFiniteSet({f[x] : x \in S})
           /\ Cardinality({f[x] : x \in S}) <= Cardinality(S)
<1> DEFINE T == {f[x] : x \in S}
<1>1. f \in [S -> T]
  OBVIOUS
<1>2. f \in Surjection(S, T)
  BY <1>1 DEF Surjection
<1> HIDE DEF T
<1> QED BY <1>2, FS_Surjection DEF T
=============================================================================
