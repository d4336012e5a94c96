----------------------------- MODULE ArraysProofs -----------------------------
(***************************************************************************)
(* What Filtered and FlattenSeq return, for every array.  Both are         *)
(* recursive functions; the induction is that of the lemma Inductive,      *)
(* which has a set in place of a predicate.                                *)
(***************************************************************************)
EXTENDS Arrays, SequenceTheorems, FiniteSetTheorems, WellFoundedInduction, TLAPS

\* A set of numbers that has 0, and with a number the next one, has them all.
LEMMA Inductive ==
  ASSUME NEW T, 0 \in T, \A n \in Nat : n \in T => n + 1 \in T
  PROVE  Nat \subseteq T
<1> DEFINE R == OpToRel(<, Nat)
           B == Nat \ T
<1>1. \A x, y \in Nat : x < y => <<x, y>> \in R
  BY DEF OpToRel
<1>2. IsWellFoundedOn(R, Nat)
  BY Zenon, NatLessThanWellFounded
<1> HIDE DEF R, B
<1>3. SUFFICES ASSUME B # {} PROVE FALSE
  BY <1>3 DEF B
<1>4. B \subseteq Nat
  BY DEF B
<1>5. PICK x \in B : \A y \in B : ~ (<<y, x>> \in R)
  BY <1>2, <1>3, <1>4, WFMin
<1>6. x \in Nat /\ x # 0 /\ x - 1 \in Nat /\ x - 1 < x /\ (x - 1) + 1 = x
  BY DEF B
<1>7. x - 1 \in T
  BY <1>1, <1>5, <1>6 DEF B
<1> QED
  BY <1>6, <1>7 DEF B

-----------------------------------------------------------------------------
(* Filtered.                                                               *)

\* f is what Filtered defines, up to n.
Filters(f, s, S, n) ==
  f = [i \in 0 .. n |-> IF i = 0 THEN <<>>
                        ELSE IF s[i] \in S THEN Append(f[i - 1], s[i]) ELSE f[i - 1]]

\* There is such a function.
LEMMA FiltersExists ==
  ASSUME NEW s, NEW S, NEW n \in Nat
  PROVE  \E f : Filters(f, s, S, n)
<1> DEFINE T == {m \in Nat : \E f : Filters(f, s, S, m)}
<1>1. 0 \in T
  <2>1. Filters([i \in 0 .. 0 |-> <<>>], s, S, 0)
    BY DEF Filters
  <2> QED
    BY <2>1
<1>2. ASSUME NEW m \in Nat, m \in T PROVE m + 1 \in T
  <2>1. PICK f : Filters(f, s, S, m)
    BY <1>2
  <2> DEFINE g == [i \in 0 .. m + 1 |-> IF i \in 0 .. m THEN f[i]
                     ELSE IF s[i] \in S THEN Append(f[i - 1], s[i]) ELSE f[i - 1]]
  <2>2. \A i \in 0 .. m : f[i] = IF i = 0 THEN <<>>
          ELSE IF s[i] \in S THEN Append(f[i - 1], s[i]) ELSE f[i - 1]
    BY <2>1 DEF Filters
  <2>3. \A i \in 0 .. m + 1 : g[i] = IF i = 0 THEN <<>>
          ELSE IF s[i] \in S THEN Append(g[i - 1], s[i]) ELSE g[i - 1]
    BY <2>2
  <2>4. Filters(g, s, S, m + 1)
    BY <2>3 DEF Filters
  <2> QED
    BY <2>4
<1> HIDE DEF T
<1>3. Nat \subseteq T
  BY <1>1, <1>2, Inductive
<1> QED
  BY <1>3 DEF T

\* Filtered is its last value.
LEMMA FilteredDef ==
  ASSUME NEW s, NEW S, Len(s) \in Nat
  PROVE  \E f : Filters(f, s, S, Len(s)) /\ Filtered(s, S) = f[Len(s)]
<1> DEFINE f == CHOOSE f : Filters(f, s, S, Len(s))
<1>1. Filters(f, s, S, Len(s))
  BY FiltersExists
<1>2. Filtered(s, S) = f[Len(s)]
  BY Zenon DEF Filtered, Filters
<1> QED
  BY <1>1, <1>2

\* r has, in their order, the items of s up to n that are in S: those at the places p.
FilterOf(r, p, s, S, n) ==
  /\ p \in [1 .. Len(r) -> 1 .. n]
  /\ \A j, k \in 1 .. Len(r) : j < k => p[j] < p[k]
  /\ \A k \in 1 .. Len(r) : r[k] = s[p[k]] /\ r[k] \in S
  /\ \A i \in 1 .. n : s[i] \in S => \E k \in 1 .. Len(r) : p[k] = i

\* Filtered returns that, and nothing else.
LEMMA FilteredPicks ==
  ASSUME NEW X, NEW s \in Seq(X), NEW S
  PROVE  /\ Filtered(s, S) \in Seq(X)
         /\ \E p : FilterOf(Filtered(s, S), p, s, S, Len(s))
<1>1. PICK f : Filters(f, s, S, Len(s)) /\ Filtered(s, S) = f[Len(s)]
  BY FilteredDef
<1>2. \A i \in 0 .. Len(s) : f[i] = IF i = 0 THEN <<>>
        ELSE IF s[i] \in S THEN Append(f[i - 1], s[i]) ELSE f[i - 1]
  BY <1>1 DEF Filters
<1> DEFINE T == {m \in Nat : m <= Len(s) => f[m] \in Seq(X) /\ \E p : FilterOf(f[m], p, s, S, m)}
<1>3. 0 \in T
  <2>1. f[0] = <<>> /\ <<>> \in Seq(X)
    BY <1>2
  <2>2. FilterOf(<<>>, [k \in 1 .. 0 |-> k], s, S, 0)
    BY DEF FilterOf
  <2>3. f[0] \in Seq(X) /\ FilterOf(f[0], [k \in 1 .. 0 |-> k], s, S, 0)
    BY <2>1, <2>2
  <2>4. \E p : FilterOf(f[0], p, s, S, 0)
    BY <2>3
  <2> QED
    BY <2>3, <2>4
<1>4. ASSUME NEW m \in Nat, m \in T PROVE m + 1 \in T
  <2>1. SUFFICES ASSUME m + 1 <= Len(s)
                 PROVE  f[m + 1] \in Seq(X) /\ \E p : FilterOf(f[m + 1], p, s, S, m + 1)
    BY <2>1
  <2> DEFINE r == f[m]
  <2>2. r \in Seq(X) /\ Len(r) \in Nat /\ s[m + 1] \in X
    BY <1>4, <2>1
  <2>3. PICK p : FilterOf(r, p, s, S, m)
    BY <1>4, <2>1
  <2>4. f[m + 1] = IF s[m + 1] \in S THEN Append(r, s[m + 1]) ELSE r
    BY <1>2, <2>1
  <2> HIDE DEF r
  <2>5. CASE s[m + 1] \in S
    <3> DEFINE t == Append(r, s[m + 1])
               q == [k \in 1 .. Len(r) + 1 |-> IF k \in 1 .. Len(r) THEN p[k] ELSE m + 1]
    <3>1. /\ t \in Seq(X) /\ Len(t) = Len(r) + 1 /\ t[Len(r) + 1] = s[m + 1]
          /\ \A k \in 1 .. Len(r) : t[k] = r[k]
      BY <2>2
    <3>2. /\ q \in [1 .. Len(t) -> 1 .. m + 1]
          /\ q[Len(r) + 1] = m + 1 /\ \A k \in 1 .. Len(r) : q[k] = p[k] /\ p[k] \in 1 .. m
      BY <2>2, <2>3, <3>1 DEF FilterOf
    <3> HIDE DEF t, q
    <3>3. ASSUME NEW j \in 1 .. Len(t), NEW k \in 1 .. Len(t), j < k PROVE q[j] < q[k]
      <4>1. j \in 1 .. Len(r) /\ q[j] = p[j] /\ p[j] \in 1 .. m
        BY <2>2, <3>1, <3>2, <3>3
      <4>2. CASE k \in 1 .. Len(r)
        BY <2>3, <3>2, <3>3, <4>1, <4>2 DEF FilterOf
      <4>3. CASE k = Len(r) + 1
        BY <3>2, <4>1, <4>3
      <4> QED
        BY <2>2, <3>1, <4>2, <4>3
    <3>4. ASSUME NEW k \in 1 .. Len(t) PROVE t[k] = s[q[k]] /\ t[k] \in S
      <4>1. CASE k = Len(r) + 1
        BY <2>5, <3>1, <3>2, <4>1
      <4>2. CASE k \in 1 .. Len(r)
        <5>1. r[k] = s[p[k]] /\ r[k] \in S
          BY <2>3, <4>2 DEF FilterOf
        <5> QED
          BY <3>1, <3>2, <4>2, <5>1
      <4> QED
        BY <2>2, <3>1, <4>1, <4>2
    <3>5. ASSUME NEW i \in 1 .. m + 1, s[i] \in S PROVE \E k \in 1 .. Len(t) : q[k] = i
      <4>1. CASE i = m + 1
        BY <2>2, <3>1, <3>2, <4>1
      <4>2. CASE i \in 1 .. m
        <5>1. PICK k \in 1 .. Len(r) : p[k] = i
          BY <2>3, <3>5, <4>2 DEF FilterOf
        <5>2. k \in 1 .. Len(t) /\ q[k] = i
          BY <2>2, <3>1, <3>2, <5>1
        <5> QED
          BY <5>2
      <4> QED
        BY <4>1, <4>2
    <3>6. FilterOf(t, q, s, S, m + 1)
      BY <3>2, <3>3, <3>4, <3>5 DEF FilterOf
    <3> QED
      BY <2>4, <2>5, <3>1, <3>6 DEF t
  <2>6. CASE s[m + 1] \notin S
    <3>1. FilterOf(r, p, s, S, m + 1)
      <4>1. p \in [1 .. Len(r) -> 1 .. m + 1]
        BY <2>3 DEF FilterOf
      <4>2. \A i \in 1 .. m + 1 : s[i] \in S => i \in 1 .. m
        BY <2>6
      <4> QED
        BY <2>3, <4>1, <4>2 DEF FilterOf
    <3> QED
      BY <2>2, <2>4, <2>6, <3>1
  <2> QED
    BY <2>5, <2>6
<1> HIDE DEF T
<1>5. Nat \subseteq T
  BY <1>3, <1>4, Inductive
<1>6. Len(s) \in T /\ Len(s) \in Nat
  BY <1>5
<1> QED
  BY <1>1, <1>6 DEF T

-----------------------------------------------------------------------------
(* FlattenSeq, of the community modules.                                   *)

\* f is what FlattenSeq defines, up to n.
Flattens(f, seqs, n) ==
  f = [i \in 1 .. n |-> IF i = 1 THEN seqs[i] ELSE f[i - 1] \o seqs[i]]

\* There is such a function.
LEMMA FlattensExists ==
  ASSUME NEW seqs, NEW n \in Nat
  PROVE  \E f : Flattens(f, seqs, n)
<1> DEFINE T == {m \in Nat : \E f : Flattens(f, seqs, m)}
<1>1. 0 \in T
  <2>1. Flattens([i \in 1 .. 0 |-> <<>>], seqs, 0)
    BY DEF Flattens
  <2> QED
    BY <2>1
<1>2. ASSUME NEW m \in Nat, m \in T PROVE m + 1 \in T
  <2>1. PICK f : Flattens(f, seqs, m)
    BY <1>2
  <2> DEFINE g == [i \in 1 .. m + 1 |-> IF i \in 1 .. m THEN f[i]
                     ELSE IF i = 1 THEN seqs[i] ELSE f[i - 1] \o seqs[i]]
  <2>2. \A i \in 1 .. m : f[i] = IF i = 1 THEN seqs[i] ELSE f[i - 1] \o seqs[i]
    BY <2>1 DEF Flattens
  <2>3. \A i \in 1 .. m + 1 : g[i] = IF i = 1 THEN seqs[i] ELSE g[i - 1] \o seqs[i]
    BY <2>2
  <2>4. Flattens(g, seqs, m + 1)
    BY <2>3 DEF Flattens
  <2> QED
    BY <2>4
<1> HIDE DEF T
<1>3. Nat \subseteq T
  BY <1>1, <1>2, Inductive
<1> QED
  BY <1>3 DEF T

\* FlattenSeq is its last value.
LEMMA FlattenDef ==
  ASSUME NEW seqs, Len(seqs) \in Nat, Len(seqs) # 0
  PROVE  \E f : Flattens(f, seqs, Len(seqs)) /\ FlattenSeq(seqs) = f[Len(seqs)]
<1> DEFINE f == CHOOSE f : Flattens(f, seqs, Len(seqs))
<1>1. Flattens(f, seqs, Len(seqs))
  BY FlattensExists
<1>2. FlattenSeq(seqs) = f[Len(seqs)]
  BY Zenon DEF FlattenSeq, Flattens
<1> QED
  BY <1>1, <1>2

\* r is the first n of seqs one after the other: its k-th item is the b[k]-th of
\* seqs[a[k]].
FlatOf(r, a, b, seqs, n) ==
  /\ a \in [1 .. Len(r) -> 1 .. n]
  /\ b \in [1 .. Len(r) -> Nat]
  /\ \A j, k \in 1 .. Len(r) : j < k => a[j] < a[k] \/ (a[j] = a[k] /\ b[j] < b[k])
  /\ \A k \in 1 .. Len(r) : b[k] \in 1 .. Len(seqs[a[k]]) /\ r[k] = seqs[a[k]][b[k]]
  /\ \A i \in 1 .. n : \A l \in 1 .. Len(seqs[i]) : \E k \in 1 .. Len(r) : a[k] = i /\ b[k] = l

\* One sequence more.
LEMMA FlatGrows ==
  ASSUME NEW X, NEW seqs, NEW m \in Nat, NEW r \in Seq(X), NEW a, NEW b,
         seqs[m + 1] \in Seq(X), FlatOf(r, a, b, seqs, m)
  PROVE  /\ r \o seqs[m + 1] \in Seq(X)
         /\ \E a2, b2 : FlatOf(r \o seqs[m + 1], a2, b2, seqs, m + 1)
<1> DEFINE s == seqs[m + 1]
           t == r \o s
           a2 == [k \in 1 .. Len(r) + Len(s) |-> IF k \in 1 .. Len(r) THEN a[k] ELSE m + 1]
           b2 == [k \in 1 .. Len(r) + Len(s) |-> IF k \in 1 .. Len(r) THEN b[k] ELSE k - Len(r)]
<1>1. s \in Seq(X) /\ Len(s) \in Nat /\ Len(r) \in Nat
  OBVIOUS
<1>2. /\ t \in Seq(X) /\ Len(t) = Len(r) + Len(s)
      /\ \A k \in 1 .. Len(r) : t[k] = r[k]
      /\ \A k \in Len(r) + 1 .. Len(t) : t[k] = s[k - Len(r)]
  BY <1>1
<1>3. /\ a \in [1 .. Len(r) -> 1 .. m] /\ b \in [1 .. Len(r) -> Nat]
      /\ \A j, k \in 1 .. Len(r) : j < k => a[j] < a[k] \/ (a[j] = a[k] /\ b[j] < b[k])
      /\ \A k \in 1 .. Len(r) : b[k] \in 1 .. Len(seqs[a[k]]) /\ r[k] = seqs[a[k]][b[k]]
      /\ \A i \in 1 .. m : \A l \in 1 .. Len(seqs[i]) :
           \E k \in 1 .. Len(r) : a[k] = i /\ b[k] = l
  BY DEF FlatOf
<1>4. /\ a2 \in [1 .. Len(t) -> 1 .. m + 1] /\ b2 \in [1 .. Len(t) -> Nat]
      /\ \A k \in 1 .. Len(r) : a2[k] = a[k] /\ a[k] \in 1 .. m /\ b2[k] = b[k] /\ b[k] \in Nat
      /\ \A k \in Len(r) + 1 .. Len(t) : a2[k] = m + 1 /\ b2[k] = k - Len(r)
  <2> HIDE DEF s, t
  <2>1. \A k \in 1 .. Len(r) : k \in 1 .. Len(r) + Len(s)
    BY <1>1
  <2>2. \A k \in Len(r) + 1 .. Len(t) : k \in 1 .. Len(r) + Len(s) /\ k \notin 1 .. Len(r)
                                         /\ k - Len(r) \in Nat
    BY <1>1, <1>2
  <2>3. \A k \in 1 .. Len(r) : a2[k] = a[k] /\ a[k] \in 1 .. m /\ b2[k] = b[k] /\ b[k] \in Nat
    BY <1>3, <2>1
  <2>4. \A k \in Len(r) + 1 .. Len(t) : a2[k] = m + 1 /\ b2[k] = k - Len(r)
    BY <1>2, <2>2
  <2>5. \A k \in 1 .. Len(t) : k \in 1 .. Len(r) \/ k \in Len(r) + 1 .. Len(t)
    BY <1>1, <1>2
  <2>6. ASSUME NEW k \in 1 .. Len(t) PROVE a2[k] \in 1 .. m + 1 /\ b2[k] \in Nat
    <3>1. m + 1 \in 1 .. m + 1 /\ \A i \in 1 .. m : i \in 1 .. m + 1
      OBVIOUS
    <3> HIDE DEF a2, b2
    <3>2. CASE k \in 1 .. Len(r)
      BY <2>3, <3>1, <3>2
    <3>3. CASE k \in Len(r) + 1 .. Len(t)
      BY <2>2, <2>4, <3>1, <3>3
    <3> QED
      BY <2>5, <3>2, <3>3
  <2>7. a2 = [k \in 1 .. Len(t) |-> a2[k]] /\ b2 = [k \in 1 .. Len(t) |-> b2[k]]
    BY <1>2
  <2> QED
    BY <2>3, <2>4, <2>6, <2>7
<1>5. seqs[m + 1] = s
  OBVIOUS
<1> HIDE DEF s, t, a2, b2
<1>6. ASSUME NEW j \in 1 .. Len(t), NEW k \in 1 .. Len(t), j < k
      PROVE  a2[j] < a2[k] \/ (a2[j] = a2[k] /\ b2[j] < b2[k])
  <2>1. CASE k \in 1 .. Len(r)
    <3>1. j \in 1 .. Len(r)
      BY <1>1, <1>6, <2>1
    <3> QED
      BY <1>3, <1>4, <1>6, <2>1, <3>1
  <2>2. CASE k \in Len(r) + 1 .. Len(t)
    <3>1. CASE j \in 1 .. Len(r)
      <4>1. a2[j] \in 1 .. m /\ a2[k] = m + 1
        BY <1>4, <2>2, <3>1
      <4>2. \A i \in 1 .. m : i < m + 1
        OBVIOUS
      <4>3. a2[j] < a2[k]
        BY <4>1, <4>2
      <4> QED
        BY <4>3
    <3>2. CASE j \in Len(r) + 1 .. Len(t)
      BY <1>1, <1>4, <1>6, <2>2, <3>2
    <3> QED
      BY <1>1, <1>2, <3>1, <3>2
  <2> QED
    BY <1>1, <1>2, <2>1, <2>2
<1>7. ASSUME NEW k \in 1 .. Len(t)
      PROVE  b2[k] \in 1 .. Len(seqs[a2[k]]) /\ t[k] = seqs[a2[k]][b2[k]]
  <2>1. CASE k \in 1 .. Len(r)
    BY <1>2, <1>3, <1>4, <2>1
  <2>2. CASE k \in Len(r) + 1 .. Len(t)
    <3>1. a2[k] = m + 1 /\ b2[k] = k - Len(r) /\ t[k] = s[k - Len(r)]
      BY <1>2, <1>4, <2>2
    <3>2. k - Len(r) \in 1 .. Len(s)
      BY <1>1, <1>2, <2>2
    <3> QED
      BY <1>5, <3>1, <3>2
  <2> QED
    BY <1>1, <1>2, <2>1, <2>2
<1>8. ASSUME NEW i \in 1 .. m + 1, NEW l \in 1 .. Len(seqs[i])
      PROVE  \E k \in 1 .. Len(t) : a2[k] = i /\ b2[k] = l
  <2>1. CASE i \in 1 .. m
    <3>1. PICK k \in 1 .. Len(r) : a[k] = i /\ b[k] = l
      BY <1>3, <2>1
    <3>2. k \in 1 .. Len(t) /\ a2[k] = i /\ b2[k] = l
      BY <1>1, <1>2, <1>4, <3>1
    <3> QED
      BY <3>2
  <2>2. CASE i = m + 1
    <3>1. l \in 1 .. Len(s)
      BY <1>5, <2>2
    <3>2. Len(r) + l \in Len(r) + 1 .. Len(t) /\ Len(r) + l \in 1 .. Len(t)
      BY <1>1, <1>2, <3>1
    <3>3. a2[Len(r) + l] = i /\ b2[Len(r) + l] = l
      BY <1>1, <1>4, <2>2, <3>1, <3>2
    <3> QED
      BY <3>2, <3>3
  <2> QED
    BY <2>1, <2>2
<1>9. FlatOf(t, a2, b2, seqs, m + 1)
  BY <1>4, <1>6, <1>7, <1>8 DEF FlatOf
<1> QED
  BY <1>2, <1>9 DEF t, s

\* FlattenSeq returns the sequences one after the other.
LEMMA FlattenPicks ==
  ASSUME NEW X, NEW seqs \in Seq(Seq(X))
  PROVE  /\ FlattenSeq(seqs) \in Seq(X)
         /\ \E a, b : FlatOf(FlattenSeq(seqs), a, b, seqs, Len(seqs))
<1>1. <<>> \in Seq(X) /\ FlatOf(<<>>, <<>>, <<>>, seqs, 0)
  BY DEF FlatOf
<1>2. CASE Len(seqs) = 0
  <2>1. seqs = <<>>
    BY <1>2, EmptySeq
  <2>2. FlattenSeq(seqs) = <<>>
    BY <2>1 DEF FlattenSeq
  <2> QED
    BY <1>1, <1>2, <2>2
<1>3. CASE Len(seqs) # 0
  <2>1. PICK f : Flattens(f, seqs, Len(seqs)) /\ FlattenSeq(seqs) = f[Len(seqs)]
    BY <1>3, FlattenDef
  <2>2. \A i \in 1 .. Len(seqs) : f[i] = IF i = 1 THEN seqs[i] ELSE f[i - 1] \o seqs[i]
    BY <2>1 DEF Flattens
  <2> DEFINE T == {m \in Nat : m \in 1 .. Len(seqs)
                                 => f[m] \in Seq(X) /\ \E a, b : FlatOf(f[m], a, b, seqs, m)}
  <2>3. 0 \in T
    OBVIOUS
  <2>4. ASSUME NEW m \in Nat, m \in T PROVE m + 1 \in T
    <3>1. SUFFICES ASSUME m + 1 \in 1 .. Len(seqs)
                   PROVE  /\ f[m + 1] \in Seq(X)
                          /\ \E a, b : FlatOf(f[m + 1], a, b, seqs, m + 1)
      BY <3>1
    <3>2. seqs[m + 1] \in Seq(X)
      BY <3>1
    <3>3. CASE m = 0
      <4>1. f[m + 1] = seqs[m + 1]
        BY <2>2, <3>1, <3>3
      <4>2. <<>> \o seqs[m + 1] = seqs[m + 1]
        BY <3>2
      <4>3. seqs[0 + 1] \in Seq(X) /\ 0 \in Nat
        BY <3>2, <3>3
      <4>4. \E a, b : FlatOf(<<>> \o seqs[0 + 1], a, b, seqs, 0 + 1)
        BY <1>1, <4>3, FlatGrows
      <4> QED
        BY <3>2, <3>3, <4>1, <4>2, <4>4
    <3>4. CASE m # 0
      <4>1. PICK a, b : f[m] \in Seq(X) /\ FlatOf(f[m], a, b, seqs, m)
        BY <2>4, <3>1, <3>4
      <4>2. f[m + 1] = f[m] \o seqs[m + 1]
        <5>1. m + 1 # 1 /\ (m + 1) - 1 = m
          BY <3>4
        <5> QED
          BY <2>2, <3>1, <5>1
      <4> QED
        BY <3>2, <4>1, <4>2, FlatGrows
    <3> QED
      BY <3>3, <3>4
  <2> HIDE DEF T
  <2>5. Nat \subseteq T
    BY <2>3, <2>4, Inductive
  <2>6. Len(seqs) \in T /\ Len(seqs) \in 1 .. Len(seqs)
    BY <1>3, <2>5
  <2> QED
    BY <2>1, <2>6 DEF T
<1> QED
  BY <1>2, <1>3

-----------------------------------------------------------------------------
(* Arrays made of the items of another, no place of it taken twice.         *)

Drawn(t, s) ==
  \E p \in [1 .. Len(t) -> 1 .. Len(s)] :
    /\ \A j, k \in 1 .. Len(t) : p[j] = p[k] => j = k
    /\ \A k \in 1 .. Len(t) : t[k] = s[p[k]]

\* All of them, or none.
LEMMA DrawnItself ==
  ASSUME NEW X, NEW s \in Seq(X)
  PROVE  Drawn(s, s) /\ Drawn(<<>>, s)
<1>1. Drawn(s, s)
  <2> DEFINE p == [k \in 1 .. Len(s) |-> k]
  <2>1. p \in [1 .. Len(s) -> 1 .. Len(s)] /\ \A k \in 1 .. Len(s) : p[k] = k
    OBVIOUS
  <2> HIDE DEF p
  <2> QED
    BY <2>1 DEF Drawn
<1>2. Drawn(<<>>, s)
  <2> DEFINE p == [k \in 1 .. 0 |-> k]
  <2>1. p \in [1 .. Len(<<>>) -> 1 .. Len(s)] /\ 1 .. Len(<<>>) = {}
    OBVIOUS
  <2> HIDE DEF p
  <2> QED
    BY <2>1 DEF Drawn
<1> QED
  BY <1>1, <1>2

\* Numbers that grow are different.
LEMMA GrowingIsInjective ==
  ASSUME NEW n \in Nat, NEW m, NEW p \in [1 .. n -> 1 .. m],
         \A j, k \in 1 .. n : j < k => p[j] < p[k]
  PROVE  \A j, k \in 1 .. n : p[j] = p[k] => j = k
<1> SUFFICES ASSUME NEW j \in 1 .. n, NEW k \in 1 .. n, p[j] = p[k], j # k PROVE FALSE
  OBVIOUS
<1>1. p[j] \in Int /\ p[k] \in Int
  OBVIOUS
<1>2. j < k \/ k < j
  OBVIOUS
<1>3. p[j] < p[k] \/ p[k] < p[j]
  BY <1>2
<1> QED
  BY <1>1, <1>3

\* What Filtered keeps.
LEMMA FilteredDrawn ==
  ASSUME NEW X, NEW s \in Seq(X), NEW S
  PROVE  /\ Filtered(s, S) \in Seq(X)
         /\ Drawn(Filtered(s, S), s)
<1> DEFINE r == Filtered(s, S)
<1>1. PICK p : r \in Seq(X) /\ FilterOf(r, p, s, S, Len(s))
  BY FilteredPicks
<1> HIDE DEF r
<1>2. /\ p \in [1 .. Len(r) -> 1 .. Len(s)] /\ Len(r) \in Nat
      /\ \A j, k \in 1 .. Len(r) : j < k => p[j] < p[k]
      /\ \A k \in 1 .. Len(r) : r[k] = s[p[k]]
  BY <1>1 DEF FilterOf
<1>3. \A j, k \in 1 .. Len(r) : p[j] = p[k] => j = k
  BY <1>2, GrowingIsInjective
<1>4. Drawn(r, s)
  BY <1>2, <1>3 DEF Drawn
<1> QED
  BY <1>1, <1>4 DEF r

\* The items up to n, then some of those after it.
LEMMA HeadDrawn ==
  ASSUME NEW X, NEW s \in Seq(X), NEW n \in 1 .. Len(s), NEW S
  PROVE  LET t == SubSeq(s, 1, n) \o Filtered(SubSeq(s, n + 1, Len(s)), S)
         IN t \in Seq(X) /\ Drawn(t, s)
<1> DEFINE head == SubSeq(s, 1, n)
           tail == SubSeq(s, n + 1, Len(s))
           kept == Filtered(tail, S)
           t == head \o kept
<1>1. /\ head \in Seq(X) /\ Len(head) = n /\ \A k \in 1 .. n : head[k] = s[k]
      /\ tail \in Seq(X) /\ Len(tail) = Len(s) - n
      /\ \A k \in 1 .. Len(tail) : tail[k] = s[n + k]
  OBVIOUS
<1> HIDE DEF head, tail
<1>2. kept \in Seq(X) /\ Drawn(kept, tail)
  BY <1>1, FilteredDrawn
<1>3. PICK p \in [1 .. Len(kept) -> 1 .. Len(tail)] :
        /\ \A j, k \in 1 .. Len(kept) : p[j] = p[k] => j = k
        /\ \A k \in 1 .. Len(kept) : kept[k] = tail[p[k]]
  BY <1>2 DEF Drawn
<1> HIDE DEF kept
<1>4. /\ t \in Seq(X) /\ Len(t) = n + Len(kept) /\ Len(kept) \in Nat
      /\ \A k \in 1 .. n : t[k] = head[k]
      /\ \A k \in n + 1 .. Len(t) : t[k] = kept[k - n] /\ k - n \in 1 .. Len(kept)
  <2>1. t \in Seq(X) /\ Len(t) = n + Len(kept) /\ Len(kept) \in Nat
    BY <1>1, <1>2
  <2>2. \A k \in 1 .. n : t[k] = head[k]
    BY <1>1, <1>2
  <2>3. \A k \in n + 1 .. Len(t) : k - n \in 1 .. Len(kept)
    BY <2>1
  <2>4. \A k \in n + 1 .. Len(t) : t[k] = kept[k - n]
    BY <1>1, <1>2, <2>1
  <2> QED
    BY <2>1, <2>2, <2>3, <2>4
<1> DEFINE q == [k \in 1 .. Len(t) |-> IF k <= n THEN k ELSE n + p[k - n]]
<1> HIDE DEF t
<1>5. \A k \in 1 .. Len(t) : k \in 1 .. n \/ k \in n + 1 .. Len(t)
  BY <1>4
<1>6. \A k \in 1 .. n : k \in 1 .. Len(t) /\ q[k] = k /\ q[k] \in 1 .. Len(s)
  BY <1>4
<1>7. ASSUME NEW k \in n + 1 .. Len(t)
      PROVE  /\ k \in 1 .. Len(t) /\ q[k] = n + p[k - n] /\ p[k - n] \in 1 .. Len(tail)
             /\ k - n \in 1 .. Len(kept) /\ q[k] \in n + 1 .. Len(s)
  <2>1. k - n \in 1 .. Len(kept) /\ k \in 1 .. Len(t) /\ ~ (k <= n)
    BY <1>4
  <2>2. p[k - n] \in 1 .. Len(tail) /\ q[k] = n + p[k - n]
    BY <2>1
  <2> QED
    BY <1>1, <2>1, <2>2
<1>8. q = [k \in 1 .. Len(t) |-> q[k]]
  OBVIOUS
<1> HIDE DEF q
<1>9. q \in [1 .. Len(t) -> 1 .. Len(s)]
  <2>1. ASSUME NEW k \in 1 .. Len(t) PROVE q[k] \in 1 .. Len(s)
    <3>1. CASE k \in 1 .. n
      BY <1>6, <3>1
    <3>2. CASE k \in n + 1 .. Len(t)
      <4>1. q[k] \in n + 1 .. Len(s)
        BY <1>7, <3>2
      <4> QED
        BY <4>1
    <3> QED
      BY <1>5, <3>1, <3>2
  <2> QED
    BY <1>8, <2>1
<1>10. ASSUME NEW j \in 1 .. Len(t), NEW k \in 1 .. Len(t), q[j] = q[k] PROVE j = k
  <2>1. CASE j \in 1 .. n /\ k \in 1 .. n
    BY <1>6, <1>10, <2>1
  <2>2. CASE j \in 1 .. n /\ k \in n + 1 .. Len(t)
    <3>1. q[j] = j /\ q[k] \in n + 1 .. Len(s)
      BY <1>6, <1>7, <2>2
    <3> QED
      BY <1>10, <2>2, <3>1
  <2>3. CASE j \in n + 1 .. Len(t) /\ k \in 1 .. n
    <3>1. q[k] = k /\ q[j] \in n + 1 .. Len(s)
      BY <1>6, <1>7, <2>3
    <3> QED
      BY <1>10, <2>3, <3>1
  <2>4. CASE j \in n + 1 .. Len(t) /\ k \in n + 1 .. Len(t)
    <3>1. /\ q[j] = n + p[j - n] /\ j - n \in 1 .. Len(kept) /\ p[j - n] \in Nat
          /\ q[k] = n + p[k - n] /\ k - n \in 1 .. Len(kept) /\ p[k - n] \in Nat
      BY <1>7, <2>4
    <3>2. p[j - n] = p[k - n]
      <4>1. \A x, y \in Nat : n + x = n + y => x = y
        OBVIOUS
      <4> QED
        BY <1>10, <3>1, <4>1
    <3>3. j - n = k - n
      BY <1>3, <3>1, <3>2
    <3> QED
      BY <3>3
  <2> QED
    BY <1>5, <2>1, <2>2, <2>3, <2>4
<1>11. ASSUME NEW k \in 1 .. Len(t) PROVE t[k] = s[q[k]]
  <2>1. CASE k \in 1 .. n
    BY <1>1, <1>4, <1>6, <2>1
  <2>2. CASE k \in n + 1 .. Len(t)
    <3>1. t[k] = kept[k - n] /\ k - n \in 1 .. Len(kept) /\ q[k] = n + p[k - n]
      BY <1>4, <1>7, <2>2
    <3>2. kept[k - n] = tail[p[k - n]] /\ p[k - n] \in 1 .. Len(tail)
      BY <1>3, <3>1
    <3> QED
      BY <1>1, <3>1, <3>2
  <2> QED
    BY <1>5, <2>1, <2>2
<1>12. t \in Seq(X) /\ Drawn(t, s)
  BY <1>4, <1>9, <1>10, <1>11 DEF Drawn
<1> QED
  BY <1>12 DEF t, kept, head, tail

\* The items of one array by the disjoint sets they are in: q are their places in the
\* array, c the sets.
SortOf(t, c, q, s, n, sets) ==
  /\ c \in [1 .. Len(t) -> 1 .. n] /\ q \in [1 .. Len(t) -> 1 .. Len(s)]
  /\ \A k \in 1 .. Len(t) : t[k] = s[q[k]] /\ t[k] \in sets[c[k]]
  /\ \A j, k \in 1 .. Len(t) : j < k => c[j] < c[k] \/ (c[j] = c[k] /\ q[j] < q[k])
  /\ \A h \in 1 .. Len(s), i \in 1 .. n : s[h] \in sets[i] => \E k \in 1 .. Len(t) : q[k] = h

\* The sets are disjoint.
Apart(sets, n) == \A i, j \in 1 .. n : i # j => sets[i] \cap sets[j] = {}

LEMMA SortedPicks ==
  ASSUME NEW X, NEW s \in Seq(X), NEW n \in Nat, NEW sets
  PROVE  LET t == FlattenSeq([i \in 1 .. n |-> Filtered(s, sets[i])])
         IN t \in Seq(X) /\ \E c, q : SortOf(t, c, q, s, n, sets)
<1> DEFINE seqs == [i \in 1 .. n |-> Filtered(s, sets[i])]
           t == FlattenSeq(seqs)
           P == [i \in 1 .. n |-> CHOOSE p : FilterOf(seqs[i], p, s, sets[i], Len(s))]
<1>1. \A i \in 1 .. n : seqs[i] \in Seq(X) /\ \E p : FilterOf(seqs[i], p, s, sets[i], Len(s))
  BY FilteredPicks
<1>2. seqs \in Seq(Seq(X)) /\ Len(seqs) = n
  BY <1>1
<1>3. \A i \in 1 .. n : FilterOf(seqs[i], P[i], s, sets[i], Len(s))
  BY <1>1
<1>4. PICK a, b : t \in Seq(X) /\ FlatOf(t, a, b, seqs, n)
  BY <1>2, FlattenPicks
<1> HIDE DEF seqs, t, P
<1>5. ASSUME NEW i \in 1 .. n
      PROVE  /\ \A l \in 1 .. Len(seqs[i]) : /\ P[i][l] \in 1 .. Len(s)
                                             /\ seqs[i][l] = s[P[i][l]]
                                             /\ seqs[i][l] \in sets[i]
             /\ \A l, h \in 1 .. Len(seqs[i]) : l < h => P[i][l] < P[i][h]
             /\ \A h \in 1 .. Len(s) : s[h] \in sets[i] => \E l \in 1 .. Len(seqs[i]) : P[i][l] = h
  BY <1>3 DEF FilterOf
<1>6. /\ a \in [1 .. Len(t) -> 1 .. n] /\ b \in [1 .. Len(t) -> Nat]
      /\ \A j, k \in 1 .. Len(t) : j < k => a[j] < a[k] \/ (a[j] = a[k] /\ b[j] < b[k])
      /\ \A k \in 1 .. Len(t) : b[k] \in 1 .. Len(seqs[a[k]]) /\ t[k] = seqs[a[k]][b[k]]
      /\ \A i \in 1 .. n : \A l \in 1 .. Len(seqs[i]) :
           \E k \in 1 .. Len(t) : a[k] = i /\ b[k] = l
  BY <1>4 DEF FlatOf
<1> DEFINE q == [k \in 1 .. Len(t) |-> P[a[k]][b[k]]]
<1>7. q \in [1 .. Len(t) -> 1 .. Len(s)] /\ \A k \in 1 .. Len(t) : q[k] = P[a[k]][b[k]]
  BY <1>5, <1>6
<1> HIDE DEF q
<1>8. ASSUME NEW k \in 1 .. Len(t) PROVE t[k] = s[q[k]] /\ t[k] \in sets[a[k]]
  <2> DEFINE i == a[k]
             l == b[k]
  <2>1. i \in 1 .. n /\ l \in 1 .. Len(seqs[i]) /\ t[k] = seqs[i][l] /\ q[k] = P[i][l]
    BY <1>6, <1>7
  <2> HIDE DEF i, l
  <2>2. seqs[i][l] = s[P[i][l]] /\ seqs[i][l] \in sets[i]
    BY <1>5, <2>1
  <2> QED
    BY <2>1, <2>2 DEF i
<1>9. ASSUME NEW j \in 1 .. Len(t), NEW k \in 1 .. Len(t), j < k
      PROVE  a[j] < a[k] \/ (a[j] = a[k] /\ q[j] < q[k])
  <2>1. CASE a[j] = a[k] /\ b[j] < b[k]
    <3> DEFINE i == a[j]
    <3>1. i \in 1 .. n /\ b[j] \in 1 .. Len(seqs[i]) /\ b[k] \in 1 .. Len(seqs[i])
      BY <1>6, <2>1
    <3>2. q[j] = P[i][b[j]] /\ q[k] = P[i][b[k]]
      BY <1>7, <2>1
    <3> HIDE DEF i
    <3>3. q[j] < q[k]
      BY <1>5, <2>1, <3>1, <3>2
    <3> QED
      BY <2>1, <3>3
  <2> QED
    BY <1>6, <1>9, <2>1
<1>10. ASSUME NEW h \in 1 .. Len(s), NEW i \in 1 .. n, s[h] \in sets[i]
       PROVE  \E k \in 1 .. Len(t) : q[k] = h
  <2>1. PICK l \in 1 .. Len(seqs[i]) : P[i][l] = h
    BY <1>5, <1>10
  <2>2. PICK k \in 1 .. Len(t) : a[k] = i /\ b[k] = l
    BY <1>6
  <2> QED
    BY <1>7, <2>1, <2>2
<1>11. SortOf(t, a, q, s, n, sets)
  BY <1>6, <1>7, <1>8, <1>9, <1>10 DEF SortOf
<1> QED
  BY <1>4, <1>11 DEF t, seqs

\* No place is taken twice.
LEMMA SortOfInjective ==
  ASSUME NEW X, NEW s \in Seq(X), NEW n \in Nat, NEW sets, NEW t \in Seq(X), NEW c, NEW q,
         SortOf(t, c, q, s, n, sets), Apart(sets, n)
  PROVE  \A j, k \in 1 .. Len(t) : q[j] = q[k] => j = k
<1> SUFFICES ASSUME NEW j \in 1 .. Len(t), NEW k \in 1 .. Len(t), q[j] = q[k] PROVE j = k
  OBVIOUS
<1>1. /\ c \in [1 .. Len(t) -> 1 .. n] /\ q \in [1 .. Len(t) -> 1 .. Len(s)]
      /\ \A h, l \in 1 .. Len(t) : h < l => c[h] < c[l] \/ (c[h] = c[l] /\ q[h] < q[l])
  BY DEF SortOf
<1>2. \A h \in 1 .. Len(t) : t[h] = s[q[h]] /\ t[h] \in sets[c[h]]
  BY DEF SortOf
<1>3. t[j] = t[k]
  BY <1>2
<1>4. c[j] = c[k]
  BY <1>1, <1>2, <1>3 DEF Apart
<1>5. c[j] \in Int /\ c[k] \in Int /\ q[j] \in Int /\ q[k] \in Int
  <2>1. c[j] \in 1 .. n /\ c[k] \in 1 .. n /\ q[j] \in 1 .. Len(s) /\ q[k] \in 1 .. Len(s)
    BY <1>1
  <2> QED
    BY <2>1
<1>6. ~ (j < k) /\ ~ (k < j)
  BY <1>1, <1>4, <1>5
<1> QED
  BY <1>6

LEMMA SortedDrawn ==
  ASSUME NEW X, NEW s \in Seq(X), NEW n \in Nat, NEW sets, Apart(sets, n)
  PROVE  LET t == FlattenSeq([i \in 1 .. n |-> Filtered(s, sets[i])])
         IN t \in Seq(X) /\ Drawn(t, s)
<1>1. ASSUME NEW r \in Seq(X), NEW c, NEW q, SortOf(r, c, q, s, n, sets) PROVE Drawn(r, s)
  <2>1. \A j, k \in 1 .. Len(r) : q[j] = q[k] => j = k
    BY <1>1, SortOfInjective
  <2>2. /\ q \in [1 .. Len(r) -> 1 .. Len(s)]
        /\ \A k \in 1 .. Len(r) : r[k] = s[q[k]]
    BY <1>1 DEF SortOf
  <2> QED
    BY <2>1, <2>2 DEF Drawn
<1> QED
  BY <1>1, SortedPicks

\* Every item of s is in one of the sets.
Covers(sets, n, s) == \A h \in 1 .. Len(s) : \E i \in 1 .. n : s[h] \in sets[i]

\* Sorting loses nothing: where every item is in one of the sets, q is a permutation.
LEMMA SortedIsWhole ==
  ASSUME NEW X, NEW s \in Seq(X), NEW n \in Nat, NEW sets, NEW t \in Seq(X), NEW c, NEW q,
         SortOf(t, c, q, s, n, sets),
         Apart(sets, n), Covers(sets, n, s)
  PROVE  Len(t) = Len(s)
<1>1. /\ q \in [1 .. Len(t) -> 1 .. Len(s)]
      /\ \A h \in 1 .. Len(s) : \E k \in 1 .. Len(t) : q[k] = h
  BY DEF SortOf, Covers
<1>2. \A j, k \in 1 .. Len(t) : q[j] = q[k] => j = k
  BY SortOfInjective
<1>3. q \in Bijection(1 .. Len(t), 1 .. Len(s))
  <2>1. q \in Injection(1 .. Len(t), 1 .. Len(s))
    BY <1>1, <1>2 DEF Injection, IsInjective
  <2>2. q \in Surjection(1 .. Len(t), 1 .. Len(s))
    BY <1>1 DEF Surjection
  <2> QED
    BY <2>1, <2>2 DEF Bijection
<1>4. \A m \in Nat : IsFiniteSet(1 .. m) /\ Cardinality(1 .. m) = m
  <2> SUFFICES ASSUME NEW m \in Nat PROVE IsFiniteSet(1 .. m) /\ Cardinality(1 .. m) = m
    OBVIOUS
  <2>1. m \in Int /\ 1 \in Int
    OBVIOUS
  <2>2. IsFiniteSet(1 .. m) /\ Cardinality(1 .. m) = IF 1 > m THEN 0 ELSE m - 1 + 1
    BY ONLY <2>1, FS_Interval
  <2> QED
    BY <2>2
<1>5. Len(t) \in Nat /\ Len(s) \in Nat
  OBVIOUS
<1>6. Cardinality(1 .. Len(t)) = Cardinality(1 .. Len(s))
  <2>1. ExistsBijection(1 .. Len(t), 1 .. Len(s)) /\ IsFiniteSet(1 .. Len(t))
    BY <1>3, <1>4, <1>5 DEF ExistsBijection
  <2> QED
    BY <2>1, FS_Bijection, Zenon
<1> QED
  BY <1>4, <1>5, <1>6

\* The parts of a concatenation.
LEMMA JoinedParts ==
  ASSUME NEW X, NEW s \in Seq(X), NEW t \in Seq(X)
  PROVE  /\ s \o t \in Seq(X) /\ Len(s \o t) = Len(s) + Len(t) /\ Len(t) \in Nat
         /\ \A k \in 1 .. Len(s) : (s \o t)[k] = s[k]
         /\ \A k \in 1 .. Len(t) : (s \o t)[Len(s) + k] = t[k]
<1>1. /\ s \o t \in Seq(X) /\ Len(s \o t) = Len(s) + Len(t)
      /\ \A k \in 1 .. Len(s) + Len(t) :
           (s \o t)[k] = IF k <= Len(s) THEN s[k] ELSE t[k - Len(s)]
  BY ConcatProperties
<1>2. Len(s) \in Nat /\ Len(t) \in Nat
  OBVIOUS
<1>3. ASSUME NEW k \in 1 .. Len(t) PROVE (s \o t)[Len(s) + k] = t[k]
  <2>1. /\ Len(s) + k \in 1 .. Len(s) + Len(t) /\ ~ (Len(s) + k <= Len(s))
        /\ Len(s) + k - Len(s) = k
    BY <1>2
  <2> QED
    BY <1>1, <2>1
<1>4. \A k \in 1 .. Len(s) : k \in 1 .. Len(s) + Len(t) /\ k <= Len(s)
  BY <1>2
<1> QED
  BY <1>1, <1>2, <1>3, <1>4

\* A sequence of items of S is one of items of T.
LEMMA SeqWidens ==
  ASSUME NEW S, NEW T, S \subseteq T, NEW s \in Seq(S)
  PROVE  s \in Seq(T)
<1>1. Len(s) \in Nat /\ s \in [1 .. Len(s) -> T]
  OBVIOUS
<1> QED
  BY <1>1

\* Min is the least number of a set that has one.
LEMMA MinIsLeast ==
  ASSUME NEW S, S \subseteq Nat, S # {}
  PROVE  Min(S) \in S /\ \A y \in S : Min(S) <= y
<1> DEFINE R == OpToRel(<, Nat)
<1>1. \A x, y \in Nat : x < y => <<x, y>> \in R
  BY DEF OpToRel
<1>2. IsWellFoundedOn(R, Nat)
  BY Zenon, NatLessThanWellFounded
<1> HIDE DEF R
<1>3. PICK x \in S : \A y \in S : ~ (<<y, x>> \in R)
  BY <1>2, WFMin
<1>4. \A y \in S : ~ (y < x) /\ y \in Nat /\ x \in Nat
  BY <1>1, <1>3
<1>5. \A y \in S : x <= y
  BY <1>4
<1> QED
  BY <1>5 DEF Min

\* t is what g maps s to, and T what it maps S to.
Mapped(s, S, t, T, g) ==
  /\ Len(t) = Len(s)
  /\ \A i \in 1 .. Len(s) : t[i] = g[s[i]] /\ (s[i] \in S <=> t[i] \in T)

\* Filtering what s is mapped to is mapping what s is filtered to.
LEMMA FilteredMaps ==
  ASSUME NEW X, NEW s \in Seq(X), NEW S, NEW Y, NEW t \in Seq(Y), NEW T, NEW g,
         Mapped(s, S, t, T, g)
  PROVE  /\ Len(Filtered(t, T)) = Len(Filtered(s, S))
         /\ \A k \in 1 .. Len(Filtered(s, S)) : Filtered(t, T)[k] = g[Filtered(s, S)[k]]
<1>0. Len(t) = Len(s) /\ \A i \in 1 .. Len(s) : t[i] = g[s[i]] /\ (s[i] \in S <=> t[i] \in T)
  BY DEF Mapped
<1>1. PICK f : Filters(f, s, S, Len(s)) /\ Filtered(s, S) = f[Len(s)]
  BY FilteredDef
<1>2. PICK h : Filters(h, t, T, Len(s)) /\ Filtered(t, T) = h[Len(s)]
  BY <1>0, FilteredDef
<1>3. \A i \in 0 .. Len(s) :
        /\ f[i] = IF i = 0 THEN <<>>
                  ELSE IF s[i] \in S THEN Append(f[i - 1], s[i]) ELSE f[i - 1]
        /\ h[i] = IF i = 0 THEN <<>>
                  ELSE IF t[i] \in T THEN Append(h[i - 1], t[i]) ELSE h[i - 1]
  BY <1>1, <1>2 DEF Filters
<1> DEFINE Same(m) == /\ f[m] \in Seq(X) /\ h[m] \in Seq(Y) /\ Len(h[m]) = Len(f[m])
                      /\ \A k \in 1 .. Len(f[m]) : h[m][k] = g[f[m][k]]
           N == {m \in Nat : m <= Len(s) => Same(m)}
<1>4. 0 \in N
  <2>1. f[0] = <<>> /\ h[0] = <<>> /\ <<>> \in Seq(X) /\ <<>> \in Seq(Y) /\ Len(<<>>) = 0
    BY <1>3
  <2>2. Same(0)
    BY <2>1
  <2> QED
    BY <2>2
<1>5. ASSUME NEW m \in Nat, m \in N PROVE m + 1 \in N
  <2>1. SUFFICES ASSUME m + 1 <= Len(s) PROVE Same(m + 1)
    BY <2>1
  <2>2. Same(m) /\ m + 1 \in 1 .. Len(s) /\ (m + 1) - 1 = m /\ m + 1 # 0
    BY <1>5, <2>1
  <2>3. CASE s[m + 1] \in S
    <3> DEFINE r == f[m]
               v == h[m]
               x == s[m + 1]
               y == t[m + 1]
    <3>1. x \in X /\ y \in Y /\ y = g[x]
      BY <1>0, <2>2
    <3>2. f[m + 1] = Append(r, x) /\ h[m + 1] = Append(v, y)
      <4>1. t[m + 1] \in T /\ m + 1 \in 0 .. Len(s)
        BY <1>0, <2>2, <2>3
      <4>2. f[m + 1] = Append(f[m], s[m + 1])
        BY <1>3, <2>2, <2>3, <4>1
      <4>3. h[m + 1] = Append(h[m], t[m + 1])
        BY <1>3, <2>2, <4>1
      <4> QED
        BY <4>2, <4>3
    <3>3. r \in Seq(X) /\ v \in Seq(Y) /\ Len(v) = Len(r) /\ \A k \in 1 .. Len(r) : v[k] = g[r[k]]
      BY <2>2
    <3> HIDE DEF r, v, x, y
    <3>4. /\ f[m + 1] \in Seq(X) /\ Len(f[m + 1]) = Len(r) + 1 /\ f[m + 1][Len(r) + 1] = x
          /\ \A k \in 1 .. Len(r) : f[m + 1][k] = r[k]
      BY <3>1, <3>2, <3>3
    <3>5. /\ h[m + 1] \in Seq(Y) /\ Len(h[m + 1]) = Len(r) + 1 /\ h[m + 1][Len(r) + 1] = y
          /\ \A k \in 1 .. Len(r) : h[m + 1][k] = v[k]
      BY <3>1, <3>2, <3>3
    <3>6. \A k \in 1 .. Len(r) + 1 : k \in 1 .. Len(r) \/ k = Len(r) + 1
      BY <3>3
    <3>7. \A k \in 1 .. Len(r) + 1 : h[m + 1][k] = g[f[m + 1][k]]
      BY <3>1, <3>3, <3>4, <3>5, <3>6
    <3> QED
      BY <3>4, <3>5, <3>7
  <2>4. CASE s[m + 1] \notin S
    <3>1. f[m + 1] = f[m] /\ h[m + 1] = h[m]
      BY <1>0, <1>3, <2>2, <2>4
    <3> QED
      BY <2>2, <3>1
  <2> QED
    BY <2>3, <2>4
<1> HIDE DEF N
<1>6. Nat \subseteq N
  BY <1>4, <1>5, Inductive
<1>7. Len(s) \in N /\ Len(s) \in Nat
  BY <1>6
<1>8. Same(Len(s))
  BY <1>7 DEF N
<1> QED
  BY <1>1, <1>2, <1>8

-----------------------------------------------------------------------------
(* Filtered, of arrays that grow or are put together.                      *)

\* A set of sequences that has the empty one, and with a sequence those that are one
\* longer, has them all.
LEMMA SequencesAll ==
  ASSUME NEW X, NEW T, <<>> \in T,
         \A s \in Seq(X), e \in X : s \in T => Append(s, e) \in T
  PROVE  Seq(X) \subseteq T
<1> DEFINE N == {n \in Nat : \A s \in Seq(X) : Len(s) = n => s \in T}
<1>1. 0 \in N
  <2>1. \A s \in Seq(X) : Len(s) = 0 => s = <<>>
    OBVIOUS
  <2> QED
    BY <2>1
<1>2. ASSUME NEW n \in Nat, n \in N PROVE n + 1 \in N
  <2> SUFFICES ASSUME NEW s \in Seq(X), Len(s) = n + 1 PROVE s \in T
    OBVIOUS
  <2>1. PICK r : r = SubSeq(s, 1, n)
    OBVIOUS
  <2>2. PICK e : e = s[n + 1]
    OBVIOUS
  <2>3. r \in Seq(X) /\ Len(r) = n /\ e \in X
    BY <2>1, <2>2
  <2>4. s = Append(r, e)
    BY <2>1, <2>2, <2>3
  <2> QED
    BY <1>2, <2>3, <2>4
<1> HIDE DEF N
<1>3. Nat \subseteq N
  BY <1>1, <1>2, Inductive
<1> QED
  BY <1>3 DEF N

\* One element more.
LEMMA FilteredGrows ==
  ASSUME NEW X, NEW s \in Seq(X), NEW e \in X, NEW S
  PROVE  Filtered(Append(s, e), S)
           = IF e \in S THEN Append(Filtered(s, S), e) ELSE Filtered(s, S)
<1>1. PICK t : t = Append(s, e)
  OBVIOUS
<1>2. PICK n \in Nat : n = Len(s)
  OBVIOUS
<1>3. Len(t) = n + 1 /\ t[n + 1] = e /\ \A i \in 1 .. n : t[i] = s[i]
  BY <1>1, <1>2
<1>4. PICK f : Filters(f, s, S, n) /\ Filtered(s, S) = f[n]
  BY <1>2, FilteredDef
<1>5. PICK h : Filters(h, t, S, n + 1) /\ Filtered(t, S) = h[n + 1]
  BY <1>3, FilteredDef
<1>6. \A i \in 0 .. n : f[i] = IF i = 0 THEN <<>>
        ELSE IF s[i] \in S THEN Append(f[i - 1], s[i]) ELSE f[i - 1]
  BY <1>4 DEF Filters
<1>7. \A i \in 0 .. n + 1 : h[i] = IF i = 0 THEN <<>>
        ELSE IF t[i] \in S THEN Append(h[i - 1], t[i]) ELSE h[i - 1]
  BY <1>5 DEF Filters
<1> DEFINE T == {i \in Nat : i <= n => h[i] = f[i]}
<1>8. 0 \in T
  <2>1. 0 \in 0 .. n /\ 0 \in 0 .. n + 1
    OBVIOUS
  <2>2. f[0] = <<>> /\ h[0] = <<>>
    BY <1>6, <1>7, <2>1
  <2> QED
    BY <2>2
<1>9. ASSUME NEW i \in Nat, i \in T PROVE i + 1 \in T
  <2> SUFFICES ASSUME i + 1 <= n PROVE h[i + 1] = f[i + 1]
    OBVIOUS
  <2>1. /\ i + 1 \in 0 .. n /\ i + 1 \in 0 .. n + 1 /\ i + 1 \in 1 .. n
        /\ i + 1 # 0 /\ (i + 1) - 1 = i /\ i <= n
    OBVIOUS
  <2>2. h[i] = f[i] /\ t[i + 1] = s[i + 1]
    BY <1>3, <1>9, <2>1
  <2> QED
    BY <1>6, <1>7, <2>1, <2>2
<1> HIDE DEF T
<1>10. Nat \subseteq T
  BY <1>8, <1>9, Inductive
<1>11. h[n] = f[n]
  BY <1>10 DEF T
<1>12. n + 1 \in 0 .. n + 1 /\ n + 1 # 0 /\ (n + 1) - 1 = n
  OBVIOUS
<1> QED
  BY <1>1, <1>3, <1>4, <1>5, <1>7, <1>11, <1>12

LEMMA FilteredEmpty ==
  ASSUME NEW S
  PROVE  Filtered(<<>>, S) = <<>>
<1>1. PICK f : Filters(f, <<>>, S, 0) /\ Filtered(<<>>, S) = f[0]
  BY FilteredDef
<1> QED
  BY <1>1 DEF Filters

\* What is all in the set is kept as it is, and what is not at all goes.
LEMMA FilteredWhole ==
  ASSUME NEW X, NEW s \in Seq(X), NEW S
  PROVE  /\ (\A i \in 1 .. Len(s) : s[i] \in S) => Filtered(s, S) = s
         /\ (\A i \in 1 .. Len(s) : s[i] \notin S) => Filtered(s, S) = <<>>
<1> DEFINE T == {t \in Seq(X) :
                   /\ (\A i \in 1 .. Len(t) : t[i] \in S) => Filtered(t, S) = t
                   /\ (\A i \in 1 .. Len(t) : t[i] \notin S) => Filtered(t, S) = <<>>}
<1>1. <<>> \in T
  BY FilteredEmpty
<1>2. ASSUME NEW t \in Seq(X), NEW e \in X, t \in T PROVE Append(t, e) \in T
  <2>1. PICK u : u = Append(t, e)
    OBVIOUS
  <2>2. /\ u \in Seq(X) /\ Len(t) \in Nat /\ Len(u) = Len(t) + 1 /\ u[Len(t) + 1] = e
        /\ \A i \in 1 .. Len(t) : u[i] = t[i] /\ i \in 1 .. Len(u)
        /\ Len(t) + 1 \in 1 .. Len(u)
    BY <2>1
  <2>3. Filtered(u, S) = IF e \in S THEN Append(Filtered(t, S), e) ELSE Filtered(t, S)
    BY <2>1, FilteredGrows
  <2>4. ASSUME \A i \in 1 .. Len(u) : u[i] \in S PROVE Filtered(u, S) = u
    BY <1>2, <2>1, <2>2, <2>3, <2>4
  <2>5. ASSUME \A i \in 1 .. Len(u) : u[i] \notin S PROVE Filtered(u, S) = <<>>
    BY <1>2, <2>2, <2>3, <2>5
  <2> QED
    BY <2>1, <2>2, <2>4, <2>5
<1> HIDE DEF T
<1>3. Seq(X) \subseteq T
  BY <1>1, <1>2, SequencesAll
<1> QED
  BY <1>3 DEF T

\* Of two arrays put together.
LEMMA FilteredJoins ==
  ASSUME NEW X, NEW s \in Seq(X), NEW t \in Seq(X), NEW S
  PROVE  Filtered(s \o t, S) = Filtered(s, S) \o Filtered(t, S)
<1> DEFINE T == {u \in Seq(X) : Filtered(s \o u, S) = Filtered(s, S) \o Filtered(u, S)}
<1>0. \A u \in Seq(X) : Filtered(u, S) \in Seq(X)
  BY FilteredPicks
<1>1. <<>> \in T
  <2>1. s \o <<>> = s /\ Filtered(s, S) \o <<>> = Filtered(s, S)
    BY <1>0
  <2>2. <<>> \in Seq(X) /\ Filtered(<<>>, S) = <<>>
    BY FilteredEmpty
  <2>3. Filtered(s \o <<>>, S) = Filtered(s, S) \o Filtered(<<>>, S)
    BY <2>1, <2>2
  <2> QED
    BY <2>2, <2>3
<1>2. ASSUME NEW u \in Seq(X), NEW e \in X, u \in T PROVE Append(u, e) \in T
  <2>1. s \o Append(u, e) = Append(s \o u, e) /\ s \o u \in Seq(X)
    OBVIOUS
  <2>2. PICK a \in Seq(X) : a = Filtered(s, S)
    BY <1>0
  <2>3. PICK b \in Seq(X) : b = Filtered(u, S)
    BY <1>0
  <2>4. a \o Append(b, e) = Append(a \o b, e)
    OBVIOUS
  <2>5. Filtered(s \o u, S) = a \o b
    BY <1>2, <2>2, <2>3
  <2>6. Filtered(Append(s \o u, e), S)
          = IF e \in S THEN Append(Filtered(s \o u, S), e) ELSE Filtered(s \o u, S)
    BY <2>1, FilteredGrows
  <2>7. Filtered(Append(u, e), S) = IF e \in S THEN Append(b, e) ELSE b
    BY <2>3, FilteredGrows
  <2>8. Append(u, e) \in Seq(X)
    OBVIOUS
  <2> QED
    BY <2>1, <2>2, <2>4, <2>5, <2>6, <2>7, <2>8
<1> HIDE DEF T
<1>3. Seq(X) \subseteq T
  BY <1>1, <1>2, SequencesAll
<1> QED
  BY <1>3 DEF T

\* Two filters one after the other are one.
LEMMA FilteredTwice ==
  ASSUME NEW X, NEW s \in Seq(X), NEW A, NEW B
  PROVE  Filtered(Filtered(s, A), B) = Filtered(s, A \cap B)
<1> DEFINE T == {t \in Seq(X) : Filtered(Filtered(t, A), B) = Filtered(t, A \cap B)}
<1>1. <<>> \in T
  BY FilteredEmpty
<1>2. ASSUME NEW t \in Seq(X), NEW e \in X, t \in T PROVE Append(t, e) \in T
  <2>1. PICK a \in Seq(X) : a = Filtered(t, A)
    BY FilteredPicks
  <2>2. Filtered(Append(t, e), A) = IF e \in A THEN Append(a, e) ELSE a
    BY <2>1, FilteredGrows
  <2>3. Filtered(Append(a, e), B) = IF e \in B THEN Append(Filtered(a, B), e) ELSE Filtered(a, B)
    BY FilteredGrows
  <2>4. Filtered(Append(t, e), A \cap B)
          = IF e \in A \cap B THEN Append(Filtered(t, A \cap B), e) ELSE Filtered(t, A \cap B)
    BY FilteredGrows
  <2>5. Filtered(a, B) = Filtered(t, A \cap B) /\ Append(t, e) \in Seq(X)
    BY <1>2, <2>1
  <2>6. CASE e \in A
    <3>1. Filtered(Filtered(Append(t, e), A), B) = Filtered(Append(a, e), B)
      BY <2>2, <2>6
    <3>2. e \in A \cap B <=> e \in B
      BY <2>6
    <3>3. Filtered(Filtered(Append(t, e), A), B) = Filtered(Append(t, e), A \cap B)
      BY <2>3, <2>4, <2>5, <3>1, <3>2
    <3> QED
      BY <2>5, <3>3
  <2>7. CASE e \notin A
    BY <2>1, <2>2, <2>4, <2>5, <2>7
  <2> QED
    BY <2>6, <2>7
<1> HIDE DEF T
<1>3. Seq(X) \subseteq T
  BY <1>1, <1>2, SequencesAll
<1> QED
  BY <1>3 DEF T
=============================================================================
