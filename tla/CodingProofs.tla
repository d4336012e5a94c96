------------------------------ MODULE CodingProofs ------------------------------
(***************************************************************************)
(* Proofs about the codings of src/runtime/text.rs and base64.rs: that the *)
(* streaming TextDecoder makes of the pieces of a text what it makes of    *)
(* the whole, and that atob and btoa are each other's inverses; and of the *)
(* instance in which all the data classes are run.                         *)
(***************************************************************************)
EXTENDS MCData, UrlProofs

-----------------------------------------------------------------------------
(* Characters.                                                             *)

\* A byte that begins a character of several bytes is never the later byte of one.
LEMMA LeadsAreApart ==
  ASSUME NEW b
  PROVE  /\ Expected(b) \in 0 .. 4
         /\ Expected(b) >= 2 => b \notin Continuation
         /\ Seconds(b) \subseteq Continuation
BY DEF Expected, Seconds, Continuation

\* The k bytes of s from p on could begin a character, or be one.
BeginsAt(s, p, k) ==
  /\ k >= 1 /\ p + k - 1 <= Len(s) /\ k <= Expected(s[p])
  /\ k >= 2 => s[p + 1] \in Seconds(s[p])
  /\ \A j \in 3 .. k : s[p + j - 1] \in Continuation

\* The bytes of s from p on.
LEMMA Rest ==
  ASSUME NEW X, NEW s \in Seq(X), NEW p \in 1 .. Len(s) + 1
  PROVE  LET t == SubSeq(s, p, Len(s))
         IN /\ t \in Seq(X) /\ Len(t) = Len(s) - p + 1 /\ Len(t) \in Nat
            /\ \A j \in 1 .. Len(t) : t[j] = s[p + j - 1]
<1> DEFINE t == SubSeq(s, p, Len(s))
<1>1. /\ t \in Seq(X) /\ Len(t) = IF p <= Len(s) THEN Len(s) - p + 1 ELSE 0
      /\ \A j \in 1 .. Len(s) - p + 1 : t[j] = s[p + j - 1]
  BY SubSeqProperties
<1> HIDE DEF t
<1>2. Len(t) = Len(s) - p + 1
  BY <1>1
<1> QED
  BY <1>1, <1>2 DEF t

\* The first bytes of s.
LEMMA FirstBytes ==
  ASSUME NEW X, NEW s \in Seq(X), NEW r \in 0 .. Len(s)
  PROVE  LET t == SubSeq(s, 1, r)
         IN t \in Seq(X) /\ Len(t) = r /\ \A j \in 1 .. r : t[j] = s[j]
<1> DEFINE t == SubSeq(s, 1, r)
<1>1. /\ t \in Seq(X) /\ Len(t) = IF 1 <= r THEN r - 1 + 1 ELSE 0
      /\ \A j \in 1 .. r - 1 + 1 : t[j] = s[1 + j - 1]
  BY SubSeqProperties
<1> HIDE DEF t
<1>2. Len(t) = r
  BY <1>1
<1>3. ASSUME NEW j \in 1 .. r PROVE t[j] = s[j]
  <2>1. j \in 1 .. r - 1 + 1 /\ 1 + j - 1 = j
    OBVIOUS
  <2> QED
    BY <1>1, <2>1
<1> QED
  BY <1>1, <1>2, <1>3 DEF t

LEMMA BeginsIsBeginsAt ==
  ASSUME NEW X, NEW s \in Seq(X), NEW p \in 1 .. Len(s), NEW k \in Int
  PROVE  Begins(SubSeq(s, p, Len(s)), k) <=> BeginsAt(s, p, k)
<1> DEFINE t == SubSeq(s, p, Len(s))
<1>1. /\ t \in Seq(X) /\ Len(t) = Len(s) - p + 1
      /\ \A j \in 1 .. Len(t) : t[j] = s[p + j - 1]
  BY Rest
<1> HIDE DEF t
<1>2. k \in 1 .. Len(t) <=> k >= 1 /\ p + k - 1 <= Len(s)
  BY <1>1
<1>3. CASE k \notin 1 .. Len(t)
  BY <1>2, <1>3 DEF Begins, BeginsAt, t
<1>4. CASE k \in 1 .. Len(t)
  <2>1. t[1] = s[p]
    <3>1. 1 \in 1 .. Len(t) /\ p + 1 - 1 = p
      BY <1>1, <1>4
    <3> QED
      BY <1>1, <3>1
  <2>2. k >= 2 => t[2] = s[p + 1]
    <3>1. k >= 2 => 2 \in 1 .. Len(t) /\ p + 2 - 1 = p + 1
      BY <1>1, <1>4
    <3> QED
      BY <1>1, <3>1
  <2>3. ASSUME NEW j \in 3 .. k PROVE t[j] = s[p + j - 1]
    <3>1. j \in 1 .. Len(t)
      BY <1>1, <1>4
    <3> QED
      BY <1>1, <3>1
  <2> QED
    BY <1>2, <1>4, <2>1, <2>2, <2>3 DEF Begins, BeginsAt, t
<1> QED
  BY <1>3, <1>4

\* Max is the greatest of a few numbers.
LEMMA CharSizeIs ==
  ASSUME NEW s
  PROVE  /\ CharSize(s) \in 1 .. 4
         /\ CharSize(s) = 1 \/ Begins(s, CharSize(s))
         /\ \A k \in 1 .. 4 : Begins(s, k) => k <= CharSize(s)
<1> DEFINE S == {1} \cup {k \in 1 .. 4 : Begins(s, k)}
<1>1. S \subseteq 1 .. 4 /\ 1 \in S
  OBVIOUS
<1>2. \A k \in S : k = 1 \/ Begins(s, k)
  OBVIOUS
<1>3. \A k \in 1 .. 4 : Begins(s, k) => k \in S
  OBVIOUS
<1> HIDE DEF S
<1>4. \E x \in S : \A y \in S : x >= y
  <2>1. CASE 4 \in S
    BY <1>1, <2>1
  <2>2. CASE 4 \notin S /\ 3 \in S
    BY <1>1, <2>2
  <2>3. CASE 4 \notin S /\ 3 \notin S /\ 2 \in S
    BY <1>1, <2>3
  <2>4. CASE 4 \notin S /\ 3 \notin S /\ 2 \notin S
    BY <1>1, <2>4
  <2> QED
    BY <2>1, <2>2, <2>3, <2>4
<1>5. Max(S) \in S /\ \A y \in S : Max(S) >= y
  BY <1>4 DEF Max
<1>6. CharSize(s) = Max(S)
  BY DEF CharSize, S
<1> QED
  BY <1>1, <1>2, <1>3, <1>5, <1>6

\* A character and its size are those of its own bytes.
LEMMA CharFits ==
  ASSUME NEW X, NEW s \in Seq(X), s # <<>>
  PROVE  /\ CharSize(s) \in 1 .. Len(s)
         /\ FirstChar(s) \in Seq(X)
<1>1. Len(s) \in Nat /\ Len(s) >= 1
  BY EmptySeq
<1>2. CharSize(s) \in 1 .. Len(s)
  BY <1>1, CharSizeIs DEF Begins
<1>3. SubSeq(s, 1, CharSize(s)) \in Seq(X)
  BY <1>1, <1>2, FirstBytes
<1>4. <<>> \in Seq(X)
  OBVIOUS
<1> QED
  BY <1>2, <1>3, <1>4 DEF FirstChar, Replacement

-----------------------------------------------------------------------------
(* Decoded.                                                                *)

\* The value of Decoded's function at i.
DecodeStep(f, s, i) ==
  IF i > Len(s) THEN <<>>
  ELSE LET rest == SubSeq(s, i, Len(s))
       IN <<FirstChar(rest)>> \o f[i + CharSize(rest)]

\* f is what Decoded defines, from n on.
Decodes(f, s, n) == f = [i \in n .. Len(s) + 1 |-> DecodeStep(f, s, i)]

\* There is such a function.
LEMMA DecodesExists ==
  ASSUME NEW X, NEW s \in Seq(X)
  PROVE  \E f : Decodes(f, s, 1)
<1> DEFINE l == Len(s)
           T == {m \in Nat : m <= l => \E f : Decodes(f, s, l + 1 - m)}
<1>0. l \in Nat
  OBVIOUS
<1>1. 0 \in T
  <2> DEFINE f == [i \in l + 1 .. l + 1 |-> <<>>]
  <2>1. \A g : \A i \in l + 1 .. l + 1 : DecodeStep(g, s, i) = <<>>
    BY <1>0 DEF DecodeStep
  <2>2. Decodes(f, s, l + 1)
    BY <2>1 DEF Decodes
  <2>3. l + 1 - 0 = l + 1
    BY <1>0
  <2> QED
    BY <2>2, <2>3
<1>2. ASSUME NEW m \in Nat, m \in T PROVE m + 1 \in T
  <2>1. SUFFICES ASSUME m + 1 <= l PROVE \E f : Decodes(f, s, l + 1 - (m + 1))
    BY <2>1
  <2> DEFINE n == l + 1 - m
  <2>2. m <= l /\ n \in 2 .. l + 1 /\ l + 1 - (m + 1) = n - 1
    BY <1>0, <2>1
  <2>3. PICK f : Decodes(f, s, n)
    BY <1>2, <2>2
  <2> HIDE DEF n
  <2> DEFINE g == [i \in n - 1 .. l + 1 |->
                     IF i \in n .. l + 1 THEN f[i] ELSE DecodeStep(f, s, i)]
  <2>4. \A i \in n .. l + 1 : f[i] = DecodeStep(f, s, i)
    BY <2>3 DEF Decodes
  <2>5. \A i \in n .. l + 1 : g[i] = f[i]
    BY <1>0, <2>2
  <2>6. ASSUME NEW i \in n - 1 .. l + 1 PROVE DecodeStep(g, s, i) = DecodeStep(f, s, i)
    <3>1. CASE i > l
      BY <3>1 DEF DecodeStep
    <3>2. CASE ~ (i > l)
      <4> DEFINE rest == SubSeq(s, i, l)
      <4>1. i \in 1 .. l /\ i \in Int
        BY <1>0, <2>2, <3>2
      <4>2. rest \in Seq(X) /\ Len(rest) = l - i + 1
        BY <1>0, <4>1, Rest
      <4>3. rest # <<>>
        <5> HIDE DEF rest
        <5>1. Len(rest) # 0
          BY <1>0, <4>1, <4>2
        <5> QED
          BY <5>1, EmptySeq
      <4>4. CharSize(rest) \in 1 .. l - i + 1
        BY <4>2, <4>3, CharFits
      <4> HIDE DEF rest
      <4>5. i + CharSize(rest) \in n .. l + 1
        BY <1>0, <2>2, <4>1, <4>4
      <4>6. g[i + CharSize(rest)] = f[i + CharSize(rest)]
        BY <2>5, <4>5
      <4> HIDE DEF g
      <4> QED
        BY <3>2, <4>6 DEF DecodeStep, rest
    <3> QED
      BY <3>1, <3>2
  <2>7. \A i \in n - 1 .. l + 1 : g[i] = DecodeStep(g, s, i)
    BY <2>4, <2>5, <2>6
  <2>8. g = [i \in n - 1 .. l + 1 |-> DecodeStep(g, s, i)]
    BY <2>7
  <2>9. Decodes(g, s, n - 1)
    BY <2>8 DEF Decodes
  <2> QED
    BY <2>2, <2>9
<1> HIDE DEF T
<1>3. Nat \subseteq T
  BY <1>1, <1>2, Inductive
<1>4. l \in T
  BY <1>0, <1>3
<1>5. l + 1 - l = 1 /\ l <= l
  BY <1>0
<1> QED
  BY <1>4, <1>5 DEF T

LEMMA DecodedDef ==
  ASSUME NEW X, NEW s \in Seq(X)
  PROVE  \E f : Decodes(f, s, 1) /\ Decoded(s) = f[1]
<1> DEFINE f == CHOOSE f : Decodes(f, s, 1)
<1>1. Decodes(f, s, 1)
  BY DecodesExists
<1>2. Decoded(s) = f[1]
  BY Zenon DEF Decoded, Decodes, DecodeStep
<1> QED
  BY <1>1, <1>2

\* Its value at p is the decoding of the bytes from p on.
LEMMA DecodesRest ==
  ASSUME NEW X, NEW s \in Seq(X), NEW f, Decodes(f, s, 1), NEW p \in 1 .. Len(s) + 1
  PROVE  f[p] = Decoded(SubSeq(s, p, Len(s)))
<1> DEFINE l == Len(s)
           t == SubSeq(s, p, l)
<1>0. l \in Nat /\ t \in Seq(X) /\ Len(t) = l - p + 1 /\ Len(t) \in Nat
      /\ \A j \in 1 .. Len(t) : t[j] = s[p + j - 1]
  BY Rest
<1>1. PICK g : Decodes(g, t, 1) /\ Decoded(t) = g[1]
  BY <1>0, DecodedDef
<1>2. \A i \in 1 .. l + 1 : f[i] = DecodeStep(f, s, i)
  BY DEF Decodes
<1>3. \A i \in 1 .. Len(t) + 1 : g[i] = DecodeStep(g, t, i)
  BY <1>1 DEF Decodes
<1>4. ASSUME NEW i \in 1 .. Len(t) PROVE SubSeq(t, i, Len(t)) = SubSeq(s, p + i - 1, l)
  <2> DEFINE u == SubSeq(t, i, Len(t))
             v == SubSeq(s, p + i - 1, l)
  <2>1. u \in Seq(X) /\ Len(u) = Len(t) - i + 1 /\ \A j \in 1 .. Len(u) : u[j] = t[i + j - 1]
    BY <1>0, Rest
  <2>2. p + i - 1 \in 1 .. l + 1
    BY <1>0
  <2>3. /\ v \in Seq(X) /\ Len(v) = l - (p + i - 1) + 1
        /\ \A j \in 1 .. Len(v) : v[j] = s[(p + i - 1) + j - 1]
    BY <2>2, Rest
  <2> HIDE DEF u, v, t
  <2>4. Len(u) = Len(v)
    BY <1>0, <2>1, <2>3
  <2>5. ASSUME NEW j \in 1 .. Len(u) PROVE u[j] = v[j]
    <3>1. i + j - 1 \in 1 .. Len(t) /\ p + (i + j - 1) - 1 = (p + i - 1) + j - 1
      BY <1>0, <2>1
    <3>2. u[j] = t[i + j - 1] /\ t[i + j - 1] = s[p + (i + j - 1) - 1]
      BY <1>0, <2>1, <3>1
    <3>3. v[j] = s[(p + i - 1) + j - 1]
      BY <2>3, <2>4
    <3> QED
      BY <3>1, <3>2, <3>3
  <2>6. u = v
    BY <2>1, <2>3, <2>4, <2>5, SeqEqual
  <2> QED
    BY <2>6 DEF u, v
<1> HIDE DEF t
<1> DEFINE T == {m \in Nat : \A i \in 1 .. Len(t) + 1 :
                    Len(t) + 1 - i <= m => f[p + i - 1] = g[i]}
<1>5. 0 \in T
  <2>1. SUFFICES ASSUME NEW i \in 1 .. Len(t) + 1, Len(t) + 1 - i <= 0
                 PROVE  f[p + i - 1] = g[i]
    BY <2>1
  <2>2. i = Len(t) + 1 /\ p + i - 1 = l + 1 /\ i > Len(t) /\ l + 1 > l
    <3>1. /\ l \in Nat /\ Len(t) \in Nat /\ i \in Nat /\ p \in Nat
          /\ Len(t) = l - p + 1 /\ i <= Len(t) + 1 /\ Len(t) + 1 - i <= 0
      BY <1>0, <2>1
    <3> QED
      BY ONLY <3>1
  <2>3. f[p + i - 1] = <<>>
    <3>1. l + 1 \in 1 .. l + 1
      BY <1>0
    <3>2. f[l + 1] = DecodeStep(f, s, l + 1)
      BY <1>2, <3>1
    <3>3. DecodeStep(f, s, l + 1) = <<>>
      BY <2>2 DEF DecodeStep
    <3> QED
      BY <2>2, <3>2, <3>3
  <2>4. g[i] = <<>>
    BY <1>0, <1>3, <2>2 DEF DecodeStep
  <2> QED
    BY <2>3, <2>4
<1>6. ASSUME NEW m \in Nat, m \in T PROVE m + 1 \in T
  <2>1. SUFFICES ASSUME NEW i \in 1 .. Len(t) + 1, Len(t) + 1 - i <= m + 1
                 PROVE  f[p + i - 1] = g[i]
    BY <2>1
  <2>2. CASE i = Len(t) + 1
    BY <1>0, <1>6, <2>2
  <2>3. CASE i # Len(t) + 1
    <3> DEFINE rest == SubSeq(t, i, Len(t))
               n == CharSize(rest)
    <3>1. i \in 1 .. Len(t) /\ ~ (i > Len(t)) /\ p + i - 1 \in 1 .. l + 1 /\ ~ (p + i - 1 > l)
      <4>1. i \in 1 .. Len(t)
        BY <1>0, <2>3
      <4>2. i \in Int /\ p \in Int /\ p >= 1 /\ i >= 1 /\ i <= l - p + 1
        BY <1>0, <4>1
      <4>3. p + i - 1 \in 1 .. l + 1 /\ ~ (p + i - 1 > l)
        BY <1>0, <4>2
      <4>4. ~ (i > Len(t))
        BY <1>0, <4>1
      <4> QED
        BY <4>1, <4>3, <4>4
    <3>2. rest = SubSeq(s, p + i - 1, l)
      BY <1>4, <3>1
    <3>3. rest \in Seq(X) /\ Len(rest) = Len(t) - i + 1 /\ Len(rest) \in Nat
      BY <1>0, <3>1, Rest
    <3>4. rest # <<>>
      <4> HIDE DEF rest
      <4>1. Len(rest) # 0
        BY <1>0, <3>1, <3>3
      <4> QED
        BY <4>1, EmptySeq
    <3>5. n \in 1 .. Len(t) - i + 1
      BY <3>3, <3>4, CharFits
    <3>6. f[p + i - 1] = <<FirstChar(rest)>> \o f[p + i - 1 + n]
      BY <1>2, <3>1, <3>2 DEF DecodeStep
    <3>7. g[i] = <<FirstChar(rest)>> \o g[i + n]
      BY <1>0, <1>3, <3>1 DEF DecodeStep
    <3> HIDE DEF rest, n
    <3>8. /\ i + n \in 1 .. Len(t) + 1 /\ Len(t) + 1 - (i + n) <= m
          /\ p + (i + n) - 1 = p + i - 1 + n
      BY <1>0, <2>1, <3>1, <3>5
    <3>9. f[p + (i + n) - 1] = g[i + n]
      BY <1>6, <3>8
    <3> QED
      BY <3>6, <3>7, <3>8, <3>9
  <2> QED
    BY <2>2, <2>3
<1> HIDE DEF T
<1>7. Nat \subseteq T
  BY <1>5, <1>6, Inductive
<1>8. Len(t) \in T
  BY <1>0, <1>7
<1>9. 1 \in 1 .. Len(t) + 1 /\ Len(t) + 1 - 1 <= Len(t) /\ p + 1 - 1 = p
  BY <1>0
<1>10. f[p + 1 - 1] = g[1]
  BY <1>8, <1>9 DEF T
<1> QED
  BY <1>1, <1>9, <1>10 DEF t

\* A text is its first character and the rest.
LEMMA DecodedStep ==
  ASSUME NEW X, NEW s \in Seq(X)
  PROVE  /\ s = <<>> => Decoded(s) = <<>>
         /\ s # <<>> => Decoded(s) = <<FirstChar(s)>> \o Decoded(SubSeq(s, CharSize(s) + 1, Len(s)))
<1>1. PICK f : Decodes(f, s, 1) /\ Decoded(s) = f[1]
  BY DecodedDef
<1>2. Len(s) \in Nat /\ SubSeq(s, 1, Len(s)) = s
  BY SubSeqFull
<1>3. Decoded(s) = DecodeStep(f, s, 1)
  BY <1>1, <1>2 DEF Decodes
<1>4. CASE s = <<>>
  BY <1>3, <1>4 DEF DecodeStep
<1>5. CASE s # <<>>
  <2>1. Len(s) >= 1 /\ CharSize(s) \in 1 .. Len(s)
    <3>1. Len(s) # 0
      BY <1>5, EmptySeq
    <3>2. CharSize(s) \in 1 .. Len(s)
      BY <1>5, CharFits
    <3> QED
      BY <1>2, <3>1, <3>2
  <2>2. Decoded(s) = <<FirstChar(s)>> \o f[1 + CharSize(s)]
    <3>1. ~ (1 > Len(s))
      BY <1>2, <2>1
    <3> QED
      BY <1>2, <1>3, <3>1 DEF DecodeStep
  <2>3. 1 + CharSize(s) = CharSize(s) + 1 /\ 1 + CharSize(s) \in 1 .. Len(s) + 1
    BY <1>2, <2>1
  <2>4. f[1 + CharSize(s)] = Decoded(SubSeq(s, 1 + CharSize(s), Len(s)))
    BY <1>1, <2>3, DecodesRest
  <2> QED
    BY <1>5, <2>2, <2>3, <2>4
<1> QED
  BY <1>4, <1>5

\* Decoding returns characters.
LEMMA DecodedIsChars ==
  ASSUME NEW X, NEW s \in Seq(X)
  PROVE  Decoded(s) \in Seq(Seq(X))
<1> DEFINE T == {m \in Nat : \A t \in Seq(X) : Len(t) <= m => Decoded(t) \in Seq(Seq(X))}
<1>1. 0 \in T
  <2>1. ASSUME NEW t \in Seq(X), Len(t) <= 0 PROVE Decoded(t) \in Seq(Seq(X))
    <3>1. t = <<>>
      BY <2>1, EmptySeq
    <3>2. Decoded(t) = <<>>
      BY <3>1, DecodedStep
    <3> QED
      BY <3>2, EmptySeq
  <2> QED
    BY <2>1
<1>2. ASSUME NEW m \in Nat, m \in T PROVE m + 1 \in T
  <2>1. ASSUME NEW t \in Seq(X), Len(t) <= m + 1 PROVE Decoded(t) \in Seq(Seq(X))
    <3>1. CASE t = <<>>
      <4>1. Decoded(t) = <<>>
        BY <3>1, DecodedStep
      <4> QED
        BY <4>1, EmptySeq
    <3>2. CASE t # <<>>
      <4> DEFINE n == CharSize(t)
                 u == SubSeq(t, n + 1, Len(t))
      <4>1. n \in 1 .. Len(t) /\ FirstChar(t) \in Seq(X) /\ Len(t) \in Nat
        BY <3>2, CharFits
      <4>2. n + 1 \in 1 .. Len(t) + 1
        BY <4>1
      <4>3. u \in Seq(X) /\ Len(u) = Len(t) - (n + 1) + 1
        BY <4>2, Rest
      <4>4. Decoded(t) = <<FirstChar(t)>> \o Decoded(u)
        BY <3>2, DecodedStep
      <4> HIDE DEF n, u
      <4>5. Len(u) <= m
        BY <2>1, <4>1, <4>3
      <4>6. Decoded(u) \in Seq(Seq(X))
        BY <1>2, <4>3, <4>5
      <4>7. <<FirstChar(t)>> \in Seq(Seq(X))
        BY <4>1
      <4> QED
        BY <4>4, <4>6, <4>7, ConcatProperties
    <3> QED
      BY <3>1, <3>2
  <2> QED
    BY <2>1
<1> HIDE DEF T
<1>3. Nat \subseteq T
  BY <1>1, <1>2, Inductive
<1>4. Len(s) \in T /\ Len(s) \in Nat
  BY <1>3
<1> QED
  BY <1>4 DEF T

-----------------------------------------------------------------------------
(* A cut between two characters.                                           *)

\* No character, or beginning of one, goes on beyond the first r bytes of s.
Parted(s, r) == \A p \in 1 .. r, k \in 1 .. 4 : BeginsAt(s, p, k) => p + k - 1 <= r

\* What begins in the bytes before the cut is what begins in the whole.
LEMMA PartedBegins ==
  ASSUME NEW X, NEW s \in Seq(X), NEW r \in 0 .. Len(s), Parted(s, r),
         NEW p \in 1 .. r, NEW k \in 1 .. 4
  PROVE  BeginsAt(SubSeq(s, 1, r), p, k) <=> BeginsAt(s, p, k)
<1> DEFINE t == SubSeq(s, 1, r)
<1>1. Len(t) = r /\ (\A j \in 1 .. r : t[j] = s[j]) /\ Len(s) \in Nat
  BY FirstBytes
<1> HIDE DEF t
<1>2. BeginsAt(s, p, k) => p + k - 1 <= r
  BY DEF Parted
<1>3. CASE p + k - 1 <= r
  <2>1. t[p] = s[p]
    BY <1>1
  <2>2. k >= 2 => t[p + 1] = s[p + 1]
    <3>1. k >= 2 => p + 1 \in 1 .. r
      BY <1>3
    <3> QED
      BY <1>1, <3>1
  <2>3. ASSUME NEW j \in 3 .. k PROVE t[p + j - 1] = s[p + j - 1]
    <3>1. p + j - 1 \in 1 .. r
      BY <1>3
    <3> QED
      BY <1>1, <3>1
  <2>4. p + k - 1 <= Len(t) <=> p + k - 1 <= Len(s)
    BY <1>1, <1>3
  <2> QED
    BY <2>1, <2>2, <2>3, <2>4 DEF BeginsAt, t
<1>4. CASE ~ (p + k - 1 <= r)
  BY <1>1, <1>2, <1>4 DEF BeginsAt, t
<1> QED
  BY <1>3, <1>4

\* So the first character before the cut is that of the whole.
LEMMA PartedFirst ==
  ASSUME NEW X, NEW s \in Seq(X), NEW r \in 1 .. Len(s), Parted(s, r)
  PROVE  LET t == SubSeq(s, 1, r)
         IN /\ CharSize(t) = CharSize(s) /\ FirstChar(t) = FirstChar(s)
            /\ CharSize(s) \in 1 .. r
<1> DEFINE t == SubSeq(s, 1, r)
<1>1. t \in Seq(X) /\ Len(t) = r /\ Len(s) \in Nat /\ t[1] = s[1] /\ r \in 0 .. Len(s)
      /\ \A j \in 1 .. r : t[j] = s[j]
  <2>1. r \in 0 .. Len(s) /\ 1 \in 1 .. r
    OBVIOUS
  <2> QED
    BY <2>1, FirstBytes
<1>2. ASSUME NEW k \in 1 .. 4 PROVE Begins(t, k) <=> Begins(s, k)
  <2>1. 1 \in 1 .. r /\ 1 \in 1 .. Len(s) /\ 1 \in 1 .. Len(t)
    BY <1>1
  <2>2. SubSeq(t, 1, Len(t)) = t /\ SubSeq(s, 1, Len(s)) = s
    BY <1>1, SubSeqFull
  <2>3. Begins(s, k) <=> BeginsAt(s, 1, k)
    <3>1. k \in Int
      OBVIOUS
    <3> QED
      BY <2>1, <2>2, <3>1, BeginsIsBeginsAt
  <2>4. Begins(t, k) <=> BeginsAt(t, 1, k)
    <3> HIDE DEF t
    <3>1. k \in Int
      OBVIOUS
    <3> QED
      BY <1>1, <2>1, <2>2, <3>1, BeginsIsBeginsAt
  <2>5. BeginsAt(t, 1, k) <=> BeginsAt(s, 1, k)
    BY <1>1, <2>1, PartedBegins
  <2> QED
    BY <2>3, <2>4, <2>5
<1> HIDE DEF t
<1>3. CharSize(t) = CharSize(s)
  BY <1>2 DEF CharSize
<1>4. CharSize(s) \in 1 .. r
  <2>1. t # <<>>
    BY <1>1, EmptySeq
  <2> QED
    BY <1>1, <1>3, <2>1, CharFits
<1>5. SubSeq(t, 1, CharSize(s)) = SubSeq(s, 1, CharSize(s))
  <2> DEFINE n == CharSize(s)
             a == SubSeq(t, 1, n)
             b == SubSeq(s, 1, n)
  <2>1. n \in 1 .. r /\ n \in 0 .. Len(t) /\ n \in 0 .. Len(s)
    BY <1>1, <1>4
  <2>2. a \in Seq(X) /\ Len(a) = n /\ \A j \in 1 .. n : a[j] = t[j]
    BY <1>1, <2>1, FirstBytes
  <2>3. b \in Seq(X) /\ Len(b) = n /\ \A j \in 1 .. n : b[j] = s[j]
    BY <1>1, <2>1, FirstBytes
  <2>4. \A j \in 1 .. n : j \in 1 .. r
    BY <2>1
  <2> HIDE DEF a, b, n
  <2>5. \A j \in 1 .. Len(a) : a[j] = b[j]
    BY <1>1, <2>2, <2>3, <2>4
  <2>6. a = b
    BY <2>2, <2>3, <2>5, SeqEqual
  <2> QED
    BY <2>6 DEF a, b, n
<1>6. Begins(t, CharSize(s)) <=> Begins(s, CharSize(s))
  BY <1>2, CharSizeIs
<1>7. FirstChar(t) = FirstChar(s)
  BY <1>1, <1>3, <1>5, <1>6 DEF FirstChar
<1> QED
  BY <1>3, <1>4, <1>7 DEF t

\* And the bytes after it are cut in the same place.
LEMMA PartedRest ==
  ASSUME NEW X, NEW s \in Seq(X), NEW r \in 0 .. Len(s), Parted(s, r), NEW n \in 0 .. r
  PROVE  Parted(SubSeq(s, n + 1, Len(s)), r - n)
<1> DEFINE t == SubSeq(s, n + 1, Len(s))
<1>1. n + 1 \in 1 .. Len(s) + 1 /\ Len(s) \in Nat
  OBVIOUS
<1>2. Len(t) = Len(s) - (n + 1) + 1 /\ \A j \in 1 .. Len(t) : t[j] = s[(n + 1) + j - 1]
  BY <1>1, Rest
<1> HIDE DEF t
<1>3. Len(t) = Len(s) - n
  BY <1>1, <1>2
<1>4. ASSUME NEW i \in Int, i >= 1, i <= Len(t) PROVE t[i] = s[n + i]
  <2>1. i \in 1 .. Len(t) /\ (n + 1) + i - 1 = n + i
    BY <1>1, <1>3, <1>4
  <2> QED
    BY <1>2, <2>1
<1>5. ASSUME NEW p \in 1 .. r - n, NEW k \in 1 .. 4, BeginsAt(t, p, k)
      PROVE  p + k - 1 <= r - n
  <2>1. p + k - 1 <= Len(t) /\ k <= Expected(t[p]) /\ (k >= 2 => t[p + 1] \in Seconds(t[p]))
        /\ \A j \in 3 .. k : t[p + j - 1] \in Continuation
    BY <1>5 DEF BeginsAt
  <2>2. t[p] = s[n + p]
    BY <1>3, <1>4
  <2>3. k >= 2 => t[p + 1] = s[(n + p) + 1]
    <3>1. k >= 2 => p + 1 <= Len(t) /\ n + (p + 1) = (n + p) + 1
      BY <1>1, <1>3, <2>1
    <3> QED
      BY <1>4, <3>1
  <2>4. ASSUME NEW j \in 3 .. k PROVE t[p + j - 1] = s[(n + p) + j - 1]
    <3>1. p + j - 1 \in Int /\ p + j - 1 >= 1 /\ p + j - 1 <= Len(t)
          /\ n + (p + j - 1) = (n + p) + j - 1
      BY <1>1, <1>3, <2>1
    <3> QED
      BY <1>4, <3>1
  <2>5. (n + p) + k - 1 <= Len(s)
    BY <1>1, <1>3, <2>1
  <2>6. BeginsAt(s, n + p, k)
    <3>1. k >= 1 /\ k <= Expected(s[n + p])
      BY <2>1, <2>2
    <3>2. k >= 2 => s[(n + p) + 1] \in Seconds(s[n + p])
      BY <2>1, <2>2, <2>3
    <3>3. \A j \in 3 .. k : s[(n + p) + j - 1] \in Continuation
      BY <2>1, <2>4
    <3> QED
      BY <2>5, <3>1, <3>2, <3>3 DEF BeginsAt
  <2>7. n + p \in 1 .. r
    BY <1>1
  <2>8. (n + p) + k - 1 <= r
    BY <2>6, <2>7 DEF Parted
  <2> QED
    BY <1>1, <2>8
<1>6. Parted(t, r - n)
  BY <1>5 DEF Parted
<1> QED
  BY <1>6 DEF t

\* Cut between two characters, a text is decoded one part after the other.
LEMMA CutDecodes ==
  ASSUME NEW X, NEW s \in Seq(X), NEW r \in 0 .. Len(s), Parted(s, r)
  PROVE  Decoded(s) = Decoded(SubSeq(s, 1, r)) \o Decoded(SubSeq(s, r + 1, Len(s)))
<1> DEFINE Cut(t, q) ==
      Decoded(t) = Decoded(SubSeq(t, 1, q)) \o Decoded(SubSeq(t, q + 1, Len(t)))
<1> DEFINE T == {m \in Nat : \A q \in Nat, t \in Seq(X) :
                    q <= m /\ q <= Len(t) /\ Parted(t, q) => Cut(t, q)}
<1>0. ASSUME NEW t \in Seq(X) PROVE Cut(t, 0)
  <2>1. SubSeq(t, 1, 0) = <<>>
    BY SubSeqEmpty
  <2>2. SubSeq(t, 0 + 1, Len(t)) = t
    BY SubSeqFull
  <2>3. Decoded(<<>>) = <<>>
    BY EmptySeq, DecodedStep
  <2>4. <<>> \o Decoded(t) = Decoded(t)
    BY DecodedIsChars, ConcatEmptySeq
  <2> QED
    BY <2>1, <2>2, <2>3, <2>4
<1>1. 0 \in T
  <2>1. ASSUME NEW q \in Nat, NEW t \in Seq(X), q <= 0 PROVE Cut(t, q)
    <3>1. q = 0
      BY <2>1
    <3> HIDE DEF Cut
    <3> QED
      BY <1>0, <3>1
  <2> HIDE DEF Cut
  <2> QED
    BY <2>1
<1>2. ASSUME NEW m \in Nat, m \in T PROVE m + 1 \in T
  <2>1. ASSUME NEW q \in Nat, NEW t \in Seq(X), q <= m + 1, q <= Len(t), Parted(t, q)
        PROVE  Cut(t, q)
    <3>1. CASE q = 0
      <4> HIDE DEF Cut
      <4> QED
        BY <1>0, <3>1
    <3>2. CASE q # 0
      <4> DEFINE n == CharSize(t)
                 a == SubSeq(t, 1, q)
                 b == SubSeq(t, q + 1, Len(t))
                 c == SubSeq(t, n + 1, Len(t))
                 d == SubSeq(t, n + 1, q)
      <4>1. q \in 1 .. Len(t) /\ q \in 0 .. Len(t) /\ Len(t) \in Nat /\ t # <<>>
        BY <2>1, <3>2
      <4>2. CharSize(a) = n /\ FirstChar(a) = FirstChar(t) /\ n \in 1 .. q
        BY <2>1, <4>1, PartedFirst
      <4>3. a \in Seq(X) /\ Len(a) = q /\ \A j \in 1 .. q : a[j] = t[j]
        BY <4>1, FirstBytes
      <4>4. n + 1 \in 1 .. Len(t) + 1 /\ q + 1 \in 1 .. Len(t) + 1 /\ n \in 0 .. q
        BY <4>1, <4>2
      <4>5. c \in Seq(X) /\ Len(c) = Len(t) - (n + 1) + 1
            /\ \A j \in 1 .. Len(c) : c[j] = t[(n + 1) + j - 1]
        BY <4>4, Rest
      <4>6. b \in Seq(X) /\ Len(b) = Len(t) - (q + 1) + 1
            /\ \A j \in 1 .. Len(b) : b[j] = t[(q + 1) + j - 1]
        BY <4>4, Rest
      <4>7. FirstChar(t) \in Seq(X) /\ <<FirstChar(t)>> \in Seq(Seq(X))
        BY <4>1, CharFits
      <4>8. Decoded(t) = <<FirstChar(t)>> \o Decoded(c)
        BY <4>1, DecodedStep
      <4>9. SubSeq(a, n + 1, Len(a)) = d
        <5> DEFINE e == SubSeq(a, n + 1, Len(a))
        <5> HIDE DEF n, a
        <5>1. n + 1 \in 1 .. Len(a) + 1
          BY <4>2, <4>3
        <5>2. e \in Seq(X) /\ Len(e) = Len(a) - (n + 1) + 1
              /\ \A j \in 1 .. Len(e) : e[j] = a[(n + 1) + j - 1]
          BY <4>3, <5>1, Rest
        <5>3. \A i \in n + 1 .. q : t[i] \in X
          BY <4>1, <4>2
        <5>4. d \in Seq(X) /\ Len(d) = (IF n + 1 <= q THEN q - (n + 1) + 1 ELSE 0)
              /\ \A j \in 1 .. q - (n + 1) + 1 : d[j] = t[(n + 1) + j - 1]
          BY <4>1, <4>2, <5>3, SubSeqProperties
        <5> HIDE DEF d, e
        <5>5. Len(e) = q - n /\ Len(d) = q - n /\ q - (n + 1) + 1 = q - n
          BY <4>2, <4>3, <5>2, <5>4
        <5>6. ASSUME NEW j \in 1 .. Len(e) PROVE e[j] = d[j]
          <6>1. (n + 1) + j - 1 \in 1 .. q
            BY <4>2, <5>5
          <6> QED
            BY <4>3, <5>2, <5>4, <5>5, <6>1
        <5>7. e = d
          BY <5>2, <5>4, <5>5, <5>6, SeqEqual
        <5> QED
          BY <5>7 DEF e
      <4>10. Decoded(a) = <<FirstChar(t)>> \o Decoded(d)
        <5> HIDE DEF a, d, n
        <5>1. a # <<>>
          BY <4>1, <4>3, EmptySeq
        <5> QED
          BY <4>2, <4>3, <4>9, <5>1, DecodedStep
      <4>11. Parted(c, q - n)
        BY <2>1, <4>1, <4>4, PartedRest
      <4>12. SubSeq(c, 1, q - n) = d
        <5> DEFINE e == SubSeq(c, 1, q - n)
        <5>0. \A i \in n + 1 .. q : t[i] \in X
          BY <4>1, <4>2
        <5> HIDE DEF n, c
        <5>1. q - n \in 0 .. Len(c)
          BY <4>1, <4>2, <4>5
        <5>2. e \in Seq(X) /\ Len(e) = q - n /\ \A j \in 1 .. q - n : e[j] = c[j]
          BY <4>5, <5>1, FirstBytes
        <5>4. d \in Seq(X) /\ Len(d) = (IF n + 1 <= q THEN q - (n + 1) + 1 ELSE 0)
              /\ \A j \in 1 .. q - (n + 1) + 1 : d[j] = t[(n + 1) + j - 1]
          BY <4>1, <4>2, <5>0, SubSeqProperties
        <5> HIDE DEF d, e
        <5>5. Len(d) = q - n /\ q - (n + 1) + 1 = q - n
          BY <4>2, <5>4
        <5>6. ASSUME NEW j \in 1 .. Len(e) PROVE e[j] = d[j]
          <6>1. j \in 1 .. q - n /\ j \in 1 .. Len(c)
            BY <5>1, <5>2
          <6> QED
            BY <4>5, <5>2, <5>4, <5>5, <6>1
        <5>7. e = d
          BY <5>2, <5>4, <5>5, <5>6, SeqEqual
        <5> QED
          BY <5>7 DEF e
      <4>13. SubSeq(c, q - n + 1, Len(c)) = b
        <5> DEFINE e == SubSeq(c, q - n + 1, Len(c))
        <5> HIDE DEF n, c, b
        <5>1. q - n + 1 \in 1 .. Len(c) + 1
          BY <4>1, <4>2, <4>5
        <5>2. e \in Seq(X) /\ Len(e) = Len(c) - (q - n + 1) + 1
              /\ \A j \in 1 .. Len(e) : e[j] = c[(q - n + 1) + j - 1]
          BY <4>5, <5>1, Rest
        <5> HIDE DEF e
        <5>3. Len(e) = Len(b)
          BY <4>1, <4>2, <4>5, <4>6, <5>2
        <5>4. ASSUME NEW j \in 1 .. Len(e) PROVE e[j] = b[j]
          <6>1. (q - n + 1) + j - 1 \in 1 .. Len(c)
                /\ (n + 1) + ((q - n + 1) + j - 1) - 1 = (q + 1) + j - 1
            BY <4>1, <4>2, <4>5, <5>2
          <6>2. e[j] = t[(n + 1) + ((q - n + 1) + j - 1) - 1]
            BY <4>5, <5>2, <6>1
          <6>3. b[j] = t[(q + 1) + j - 1]
            BY <4>6, <5>3
          <6> QED
            BY <6>1, <6>2, <6>3
        <5>5. e = b
          BY <4>6, <5>2, <5>3, <5>4, SeqEqual
        <5> QED
          BY <5>5 DEF e
      <4> HIDE DEF a, b, c, d, n
      <4>14. q - n \in Nat /\ q - n <= m /\ q - n <= Len(c)
        BY <2>1, <4>1, <4>2, <4>5
      <4>15. Cut(c, q - n)
        <5> HIDE DEF Cut
        <5> QED
          BY <1>2, <4>5, <4>11, <4>14
      <4>16. Decoded(c) = Decoded(d) \o Decoded(b)
        BY <4>12, <4>13, <4>15
      <4>17. d \in Seq(X)
        <5>1. \A i \in n + 1 .. q : t[i] \in X
          BY <4>1, <4>2
        <5> QED
          BY <4>1, <4>2, <5>1, SubSeqProperties DEF d
      <4>18. Decoded(d) \in Seq(Seq(X)) /\ Decoded(b) \in Seq(Seq(X))
        BY <4>6, <4>17, DecodedIsChars
      <4>19. Decoded(t) = (<<FirstChar(t)>> \o Decoded(d)) \o Decoded(b)
        <5>1. Decoded(t) = <<FirstChar(t)>> \o (Decoded(d) \o Decoded(b))
          BY <4>8, <4>16
        <5> DEFINE Y == Seq(X)
                   u == <<FirstChar(t)>>
                   v == Decoded(d)
                   w == Decoded(b)
        <5>2. u \in Seq(Y) /\ v \in Seq(Y) /\ w \in Seq(Y)
          BY <4>7, <4>18
        <5> HIDE DEF Y, u, v, w
        <5>3. (u \o v) \o w = u \o (v \o w)
          BY <5>2, ConcatAssociative
        <5> QED
          BY <5>1, <5>3 DEF u, v, w
      <4> QED
        BY <4>10, <4>19 DEF a, b
    <3> QED
      BY <3>1, <3>2
  <2> HIDE DEF Cut
  <2> QED
    BY <2>1
<1> HIDE DEF T
<1>3. Nat \subseteq T
  BY <1>1, <1>2, Inductive
<1>4. r \in T /\ r \in Nat /\ r <= Len(s) /\ r <= r
  BY <1>3
<1>5. Cut(s, r)
  <2> HIDE DEF Cut
  <2> QED
    BY <1>4 DEF T
<1> QED
  BY <1>5

-----------------------------------------------------------------------------
(* What is held back.                                                      *)

\* The later bytes of a character that begins at p.
LEMMA LaterBytes ==
  ASSUME NEW s, NEW p \in Int, NEW k \in 1 .. 4, BeginsAt(s, p, k), NEW i \in p + 1 .. p + k - 1
  PROVE  s[i] \in Continuation
<1>1. CASE i = p + 1
  <2>1. k >= 2
    BY <1>1
  <2>2. s[p + 1] \in Seconds(s[p])
    BY <2>1 DEF BeginsAt
  <2> QED
    BY <1>1, <2>2, LeadsAreApart
<1>2. CASE i # p + 1
  <2>1. i - p + 1 \in 3 .. k /\ p + (i - p + 1) - 1 = i
    BY <1>2
  <2>2. s[p + (i - p + 1) - 1] \in Continuation
    BY <2>1 DEF BeginsAt
  <2> QED
    BY <2>1, <2>2
<1> QED
  BY <1>1, <1>2

\* Before what is held back there is the end of a character, whatever comes after.
LEMMA HeldParts ==
  ASSUME NEW X, NEW s \in Seq(X)
  PROVE  /\ IncompleteTail(s) \in 0 .. 3 /\ IncompleteTail(s) <= Len(s)
         /\ \A t \in Seq(X) : Parted(s \o t, Len(s) - IncompleteTail(s))
         /\ IncompleteTail(s) # 0
              => /\ Expected(s[Len(s) - IncompleteTail(s) + 1]) >= 2
                 /\ Expected(s[Len(s) - IncompleteTail(s) + 1]) > IncompleteTail(s)
<1> DEFINE l == Len(s)
           m == IF 3 <= l THEN 3 ELSE l
           leads == {b \in 1 .. Min({3, l}) : Expected(s[l - b + 1]) >= 2}
           back == Min(leads)
           h == IncompleteTail(s)
<1>0. l \in Nat
  OBVIOUS
<1>1. Min({3, l}) = m
  <2>1. Min({3, l}) \in {3, l} /\ \A y \in {3, l} : Min({3, l}) <= y
    BY <1>0, MinIsLeast
  <2>2. Min({3, l}) <= 3 /\ Min({3, l}) <= l
    BY <2>1
  <2>3. CASE Min({3, l}) = 3
    BY <2>2, <2>3
  <2>4. CASE Min({3, l}) = l
    BY <1>0, <2>2, <2>4
  <2> QED
    BY <2>1, <2>3, <2>4
<1>2. \A b \in Int : b \in leads <=> b \in 1 .. m /\ Expected(s[l - b + 1]) >= 2
  BY <1>1
<1>3. h = IF leads # {} /\ Expected(s[l - back + 1]) > back THEN back ELSE 0
  BY DEF IncompleteTail
<1>4. leads \subseteq 1 .. m
  BY <1>1
<1> HIDE DEF leads
<1>5. m \in Nat /\ m <= 3 /\ m <= l
  BY <1>0
<1> HIDE DEF m
<1>6. leads # {} => back \in leads /\ \A y \in leads : back <= y
  <2>1. leads \subseteq Nat
    BY <1>4, <1>5
  <2> QED
    BY <2>1, MinIsLeast
<1> HIDE DEF h, back
<1>7. h = 0 \/ (h = back /\ back \in leads /\ Expected(s[l - back + 1]) > back)
  BY <1>3, <1>6
<1>8. h \in 0 .. 3 /\ h <= l
  <2>1. CASE h = 0
    BY <1>0, <2>1
  <2>2. CASE h = back /\ back \in leads
    <3>1. h \in 1 .. m
      BY <1>4, <2>2
    <3> QED
      BY <1>0, <1>5, <3>1
  <2> QED
    BY <1>7, <2>1, <2>2
<1>9. ASSUME NEW t \in Seq(X), NEW p \in 1 .. l - h, NEW k \in 1 .. 4, BeginsAt(s \o t, p, k),
             ~ (p + k - 1 <= l - h)
      PROVE  FALSE
  <2> DEFINE u == s \o t
  <2>1. \A i \in 1 .. l : u[i] = s[i]
    BY JoinedParts
  <2>2. BeginsAt(u, p, k)
    BY <1>9
  <2> HIDE DEF u
  <2>3. ASSUME NEW b \in leads, l - b + 1 > p, l - b + 1 <= p + k - 1 PROVE FALSE
    <3>1. b \in 1 .. m /\ b \in Int /\ Expected(s[l - b + 1]) >= 2
      BY <1>2, <1>4
    <3>2. l - b + 1 \in 1 .. l
      BY <1>0, <1>5, <3>1
    <3>3. p \in Int /\ l - b + 1 \in p + 1 .. p + k - 1
      BY <1>0, <1>8, <2>3, <3>1
    <3>4. u[l - b + 1] \in Continuation
      BY <2>2, <3>3, LaterBytes
    <3>5. u[l - b + 1] = s[l - b + 1]
      BY <2>1, <3>2
    <3> QED
      BY <3>1, <3>4, <3>5, LeadsAreApart
  <2>4. CASE h # 0
    <3>1. h \in leads
      BY <1>7, <2>4
    <3>2. l - h + 1 > p /\ l - h + 1 <= p + k - 1
      BY <1>0, <1>8, <1>9
    <3> QED
      BY <2>3, <3>1, <3>2
  <2>5. CASE h = 0
    <3> DEFINE b == l - p + 1
    <3>1. b \in Int /\ b \in 1 .. 3 /\ b <= l /\ k >= 2 /\ k > b /\ l - b + 1 = p /\ p \in 1 .. l
      BY <1>0, <1>9, <2>5
    <3>2. k <= Expected(s[p])
      BY <2>1, <2>2, <3>1 DEF BeginsAt
    <3> HIDE DEF b
    <3>3. Expected(s[p]) \in Int
      BY LeadsAreApart
    <3>4. b \in leads
      <4>1. b \in 1 .. m
        BY <1>0, <3>1 DEF m
      <4>2. Expected(s[l - b + 1]) >= 2
        BY <3>1, <3>2, <3>3
      <4> QED
        BY <1>2, <3>1, <4>1, <4>2
    <3>5. back \in leads /\ back <= b /\ back \in 1 .. m
      BY <1>4, <1>6, <3>4
    <3>6. CASE back = b
      <4>1. Expected(s[l - back + 1]) > back
        BY <3>1, <3>2, <3>3, <3>6
      <4>2. h = back
        BY <1>3, <3>5, <4>1
      <4> QED
        BY <2>5, <3>1, <3>6, <4>2
    <3>7. CASE back < b
      <4>1. l - back + 1 > p /\ l - back + 1 <= p + k - 1
        BY <1>0, <1>5, <1>9, <2>5, <3>1, <3>5, <3>7
      <4> QED
        BY <2>3, <3>5, <4>1
    <3> QED
      BY <1>5, <3>1, <3>5, <3>6, <3>7
  <2> QED
    BY <2>4, <2>5
<1>10. \A t \in Seq(X) : Parted(s \o t, l - h)
  BY <1>9 DEF Parted
<1>11. h # 0 => Expected(s[l - h + 1]) >= 2 /\ Expected(s[l - h + 1]) > h
  <2>1. CASE h # 0
    <3>1. h = back /\ back \in leads /\ Expected(s[l - back + 1]) > back
      BY <1>7, <2>1
    <3>2. back \in Int
      BY <1>8, <3>1
    <3>3. Expected(s[l - back + 1]) >= 2
      BY <1>2, <3>1, <3>2
    <3> QED
      BY <3>1, <3>3
  <2> QED
    BY <2>1
<1> QED
  BY <1>8, <1>10, <1>11 DEF h

-----------------------------------------------------------------------------
(* Sequences and cuts one after the other.                                 *)

LEMMA JoinedHead ==
  ASSUME NEW X, NEW s \in Seq(X), NEW t \in Seq(X), s # <<>>
  PROVE  s \o t # <<>> /\ Head(s \o t) = Head(s) /\ Tail(s \o t) = Tail(s) \o t
<1> DEFINE u == s \o t
<1>1. /\ u \in Seq(X) /\ Len(u) = Len(s) + Len(t) /\ Len(t) \in Nat
      /\ \A k \in 1 .. Len(s) : u[k] = s[k]
      /\ \A k \in 1 .. Len(t) : u[Len(s) + k] = t[k]
  BY JoinedParts
<1>2. Len(s) \in Nat /\ Len(s) # 0
  BY EmptySeq
<1> HIDE DEF u
<1>3. u # <<>>
  BY <1>1, <1>2, EmptySeq
<1>4. Head(u) = Head(s)
  <2>1. 1 \in 1 .. Len(s)
    BY <1>2
  <2> QED
    BY <1>1, <2>1
<1> DEFINE a == Tail(s)
           v == Tail(u)
           w == a \o t
<1>5. a \in Seq(X) /\ Len(a) = Len(s) - 1 /\ \A i \in 1 .. Len(a) : a[i] = s[i + 1]
  BY HeadTailProperties
<1>6. v \in Seq(X) /\ Len(v) = Len(u) - 1 /\ \A i \in 1 .. Len(v) : v[i] = u[i + 1]
  BY <1>1, <1>3, HeadTailProperties
<1> HIDE DEF a, v
<1>7. /\ w \in Seq(X) /\ Len(w) = Len(a) + Len(t)
      /\ \A k \in 1 .. Len(a) : w[k] = a[k]
      /\ \A k \in 1 .. Len(t) : w[Len(a) + k] = t[k]
  <2>1. a \in Seq(X) /\ t \in Seq(X)
    BY <1>5
  <2> QED
    BY ONLY <2>1, JoinedParts
<1> HIDE DEF w
<1>8. Len(v) = Len(w)
  BY <1>1, <1>2, <1>5, <1>6, <1>7
<1>9. ASSUME NEW i \in 1 .. Len(v) PROVE v[i] = w[i]
  <2>1. CASE i \in 1 .. Len(a)
    <3>1. i + 1 \in 1 .. Len(s)
      BY <1>2, <1>5, <2>1
    <3>2. v[i] = u[i + 1] /\ u[i + 1] = s[i + 1]
      BY <1>1, <1>6, <3>1
    <3>3. w[i] = a[i] /\ a[i] = s[i + 1]
      BY <1>5, <1>7, <2>1
    <3> QED
      BY <3>2, <3>3
  <2>2. CASE i \notin 1 .. Len(a)
    <3>1. i - Len(a) \in 1 .. Len(t) /\ Len(a) + (i - Len(a)) = i
          /\ Len(s) + (i - Len(a)) = i + 1
      BY <1>1, <1>2, <1>5, <1>7, <1>8, <2>2
    <3>2. v[i] = u[i + 1] /\ u[Len(s) + (i - Len(a))] = t[i - Len(a)]
      BY <1>1, <1>6, <3>1
    <3>3. w[Len(a) + (i - Len(a))] = t[i - Len(a)]
      BY <1>7, <3>1
    <3> QED
      BY <3>1, <3>2, <3>3
  <2> QED
    BY <2>1, <2>2
<1>10. v = w
  BY <1>6, <1>7, <1>8, <1>9, SeqEqual
<1> QED
  BY <1>3, <1>4, <1>10 DEF u, v, w, a

LEMMA JoinedSet ==
  ASSUME NEW X, NEW s \in Seq(X), NEW t \in Seq(X)
  PROVE  ToSet(s \o t) = ToSet(s) \cup ToSet(t)
<1> DEFINE u == s \o t
<1>1. /\ u \in Seq(X) /\ Len(u) = Len(s) + Len(t) /\ Len(t) \in Nat /\ Len(s) \in Nat
      /\ \A k \in 1 .. Len(s) : u[k] = s[k]
      /\ \A k \in 1 .. Len(t) : u[Len(s) + k] = t[k]
  BY JoinedParts
<1>2. ToSet(u) = {u[i] : i \in 1 .. Len(u)} /\ ToSet(s) = {s[i] : i \in 1 .. Len(s)}
      /\ ToSet(t) = {t[i] : i \in 1 .. Len(t)}
  BY <1>1 DEF ToSet
<1> HIDE DEF u
<1>3. ASSUME NEW x \in ToSet(u) PROVE x \in ToSet(s) \cup ToSet(t)
  <2>1. PICK i \in 1 .. Len(u) : x = u[i]
    BY <1>2
  <2>2. CASE i \in 1 .. Len(s)
    BY <1>1, <1>2, <2>1, <2>2
  <2>3. CASE i \notin 1 .. Len(s)
    <3>1. i - Len(s) \in 1 .. Len(t) /\ Len(s) + (i - Len(s)) = i
      BY <1>1, <2>3
    <3>2. x = t[i - Len(s)]
      BY <1>1, <2>1, <3>1
    <3> QED
      BY <1>2, <3>1, <3>2
  <2> QED
    BY <2>2, <2>3
<1>4. ASSUME NEW x \in ToSet(s) PROVE x \in ToSet(u)
  <2>1. PICK i \in 1 .. Len(s) : x = s[i]
    BY <1>2
  <2>2. i \in 1 .. Len(u) /\ u[i] = x
    BY <1>1, <2>1
  <2> QED
    BY <1>2, <2>2
<1>5. ASSUME NEW x \in ToSet(t) PROVE x \in ToSet(u)
  <2>1. PICK i \in 1 .. Len(t) : x = t[i]
    BY <1>2
  <2>2. Len(s) + i \in 1 .. Len(u) /\ u[Len(s) + i] = x
    BY <1>1, <2>1
  <2> QED
    BY <1>2, <2>2
<1> QED
  BY <1>3, <1>4, <1>5 DEF u

\* A sequence after another is found again behind it, and the other before it.
LEMMA JoinedCut ==
  ASSUME NEW X, NEW s \in Seq(X), NEW t \in Seq(X)
  PROVE  /\ SubSeq(s \o t, 1, Len(s)) = s
         /\ SubSeq(s \o t, Len(s) + 1, Len(s \o t)) = t
<1> DEFINE u == s \o t
           a == SubSeq(u, 1, Len(s))
           b == SubSeq(u, Len(s) + 1, Len(u))
<1>1. /\ u \in Seq(X) /\ Len(u) = Len(s) + Len(t) /\ Len(t) \in Nat /\ Len(s) \in Nat
      /\ \A k \in 1 .. Len(s) : u[k] = s[k]
      /\ \A k \in 1 .. Len(t) : u[Len(s) + k] = t[k]
  BY JoinedParts
<1> HIDE DEF u
<1>2. Len(s) \in 0 .. Len(u) /\ Len(s) + 1 \in 1 .. Len(u) + 1
  BY <1>1
<1>3. a \in Seq(X) /\ Len(a) = Len(s) /\ \A j \in 1 .. Len(s) : a[j] = u[j]
  BY <1>1, <1>2, FirstBytes
<1>4. b \in Seq(X) /\ Len(b) = Len(u) - (Len(s) + 1) + 1
      /\ \A j \in 1 .. Len(b) : b[j] = u[(Len(s) + 1) + j - 1]
  BY <1>1, <1>2, Rest
<1> HIDE DEF a, b
<1>5. \A j \in 1 .. Len(a) : a[j] = s[j]
  BY <1>1, <1>3
<1>6. a = s
  BY <1>3, <1>5, SeqEqual
<1>7. Len(b) = Len(t)
  BY <1>1, <1>4
<1>8. ASSUME NEW j \in 1 .. Len(b) PROVE b[j] = t[j]
  <2>1. (Len(s) + 1) + j - 1 = Len(s) + j
    BY <1>1
  <2> QED
    BY <1>1, <1>4, <1>7, <2>1
<1>9. b = t
  BY <1>4, <1>7, <1>8, SeqEqual
<1> QED
  BY <1>6, <1>9 DEF a, b, u

\* A cut of a longer text is one of the shorter.
LEMMA PartedShorter ==
  ASSUME NEW X, NEW s \in Seq(X), NEW t \in Seq(X), NEW r \in 0 .. Len(s), Parted(s \o t, r)
  PROVE  Parted(s, r)
<1> DEFINE u == s \o t
<1>1. /\ Len(u) = Len(s) + Len(t) /\ Len(t) \in Nat /\ Len(s) \in Nat
      /\ \A k \in 1 .. Len(s) : u[k] = s[k]
  BY JoinedParts
<1>2. Parted(u, r)
  OBVIOUS
<1> HIDE DEF u
<1>3. ASSUME NEW p \in 1 .. r, NEW k \in 1 .. 4, BeginsAt(s, p, k) PROVE p + k - 1 <= r
  <2>1. p + k - 1 <= Len(s) /\ k <= Expected(s[p]) /\ (k >= 2 => s[p + 1] \in Seconds(s[p]))
        /\ \A j \in 3 .. k : s[p + j - 1] \in Continuation
    BY <1>3 DEF BeginsAt
  <2>2. u[p] = s[p]
    BY <1>1
  <2>3. k >= 2 => u[p + 1] = s[p + 1]
    <3>1. k >= 2 => p + 1 \in 1 .. Len(s)
      BY <1>1, <2>1
    <3> QED
      BY <1>1, <3>1
  <2>4. ASSUME NEW j \in 3 .. k PROVE u[p + j - 1] = s[p + j - 1]
    <3>1. p + j - 1 \in 1 .. Len(s)
      BY <1>1, <2>1
    <3> QED
      BY <1>1, <3>1
  <2>5. BeginsAt(u, p, k)
    <3>1. k >= 1 /\ k <= Expected(u[p]) /\ p + k - 1 <= Len(u)
      BY <1>1, <2>1, <2>2
    <3>2. k >= 2 => u[p + 1] \in Seconds(u[p])
      BY <2>1, <2>2, <2>3
    <3>3. \A j \in 3 .. k : u[p + j - 1] \in Continuation
      BY <2>1, <2>4
    <3> QED
      BY <3>1, <3>2, <3>3 DEF BeginsAt
  <2> QED
    BY <1>2, <2>5 DEF Parted
<1> QED
  BY <1>3 DEF Parted

\* A cut, and one of what comes after it.
LEMMA PartedFurther ==
  ASSUME NEW X, NEW s \in Seq(X), NEW t \in Seq(X), NEW r \in 0 .. Len(t),
         Parted(s \o t, Len(s)), Parted(t, r)
  PROVE  Parted(s \o t, Len(s) + r)
<1> DEFINE u == s \o t
<1>1. /\ u \in Seq(X) /\ Len(u) = Len(s) + Len(t) /\ Len(t) \in Nat /\ Len(s) \in Nat
  BY JoinedParts
<1>2. SubSeq(u, Len(s) + 1, Len(u)) = t
  BY JoinedCut
<1>3. Parted(u, Len(s))
  OBVIOUS
<1> HIDE DEF u
<1>4. ASSUME NEW p \in 1 .. Len(s) + r, NEW k \in 1 .. 4, BeginsAt(u, p, k)
      PROVE  p + k - 1 <= Len(s) + r
  <2>1. CASE p \in 1 .. Len(s)
    <3>1. p + k - 1 <= Len(s)
      BY <1>3, <1>4, <2>1 DEF Parted
    <3> QED
      BY <1>1, <3>1
  <2>2. CASE p \notin 1 .. Len(s)
    <3> DEFINE q == p - Len(s)
    <3>1. /\ q \in 1 .. r /\ q \in 1 .. Len(t) /\ p \in 1 .. Len(u) /\ k \in Int
          /\ q + Len(s) = p /\ p \in Int /\ q \in Int
      BY <1>1, <2>2
    <3> HIDE DEF q
    <3>2. Begins(SubSeq(u, p, Len(u)), k)
      BY <1>1, <1>4, <3>1, BeginsIsBeginsAt
    <3>3. SubSeq(u, p, Len(u)) = SubSeq(t, q, Len(t))
      <4> DEFINE a == SubSeq(u, p, Len(u))
                 b == SubSeq(t, q, Len(t))
      <4>1. p \in 1 .. Len(u) + 1 /\ q \in 1 .. Len(t) + 1
        BY <1>1, <3>1
      <4>2. a \in Seq(X) /\ Len(a) = Len(u) - p + 1 /\ \A j \in 1 .. Len(a) : a[j] = u[p + j - 1]
        BY <1>1, <4>1, Rest
      <4>3. b \in Seq(X) /\ Len(b) = Len(t) - q + 1 /\ \A j \in 1 .. Len(b) : b[j] = t[q + j - 1]
        BY <4>1, Rest
      <4> HIDE DEF a, b
      <4>4. Len(a) = Len(b) /\ Len(b) \in Int
        <5>1. Len(u) - p + 1 = Len(t) - q + 1
          BY <1>1, <3>1
        <5> QED
          BY <4>2, <4>3, <5>1
      <4>5. ASSUME NEW j \in 1 .. Len(a) PROVE a[j] = b[j]
        <5>1. q + j - 1 \in 1 .. Len(t) /\ Len(s) + (q + j - 1) = p + j - 1
          <6>1. j \in Int /\ j >= 1 /\ j <= Len(t) - q + 1
            BY <4>3, <4>4
          <6>2. q \in Int /\ q >= 1 /\ q + Len(s) = p
            BY <3>1
          <6>3. p \in Int /\ Len(s) \in Int /\ Len(t) \in Int
            BY <1>1, <3>1
          <6> HIDE DEF a, b, u
          <6>4. q + j - 1 >= 1 /\ q + j - 1 <= Len(t) /\ q + j - 1 \in Int
            BY ONLY <6>1, <6>2, <6>3
          <6>5. Len(s) + (q + j - 1) = p + j - 1
            BY ONLY <6>1, <6>2, <6>3
          <6> QED
            BY <6>4, <6>5
        <5>2. u[Len(s) + (q + j - 1)] = t[q + j - 1]
          BY <5>1, JoinedParts DEF u
        <5> QED
          BY <4>2, <4>3, <4>4, <5>1, <5>2
      <4>6. a = b
        BY <4>2, <4>3, <4>4, <4>5, SeqEqual
      <4> QED
        BY <4>6 DEF a, b
    <3>4. BeginsAt(t, q, k)
      BY <3>1, <3>2, <3>3, BeginsIsBeginsAt
    <3>5. q + k - 1 <= r
      BY <3>1, <3>4 DEF Parted
    <3> QED
      BY <1>1, <3>1, <3>5
  <2> QED
    BY <2>1, <2>2
<1>5. Parted(u, Len(s) + r)
  BY <1>4 DEF Parted
<1> QED
  BY <1>5 DEF u

\* Two texts with a cut between them are decoded one after the other.
LEMMA JoinDecodes ==
  ASSUME NEW X, NEW s \in Seq(X), NEW t \in Seq(X), Parted(s \o t, Len(s))
  PROVE  Decoded(s \o t) = Decoded(s) \o Decoded(t)
<1>1. s \o t \in Seq(X) /\ Len(s) \in 0 .. Len(s \o t)
  BY JoinedParts
<1>2. SubSeq(s \o t, 1, Len(s)) = s /\ SubSeq(s \o t, Len(s) + 1, Len(s \o t)) = t
  BY JoinedCut
<1>3. Decoded(s \o t) = Decoded(SubSeq(s \o t, 1, Len(s)))
                          \o Decoded(SubSeq(s \o t, Len(s) + 1, Len(s \o t)))
  BY <1>1, CutDecodes
<1> QED
  BY <1>2, <1>3

-----------------------------------------------------------------------------
(* The byte order mark.                                                    *)

LEMMA MarkIs ==
  ASSUME NEW X, NEW s \in Seq(X)
  PROVE  IsPrefix(BOM, s) <=> Len(s) >= 3 /\ s[1] = 239 /\ s[2] = 187 /\ s[3] = 191
<1>1. Len(BOM) = 3 /\ BOM[1] = 239 /\ BOM[2] = 187 /\ BOM[3] = 191 /\ BOM \in Seq(Int)
  BY DEF BOM
<1>2. SubSeq(BOM, 1, 3) = BOM
  BY <1>1, SubSeqFull
<1>3. CASE Len(s) >= 3
  <2> DEFINE a == SubSeq(s, 1, 3)
  <2>1. 3 \in 0 .. Len(s) /\ 1 \in 1 .. 3 /\ 2 \in 1 .. 3 /\ 3 \in 1 .. 3
    BY <1>3
  <2>2. a \in Seq(X) /\ Len(a) = 3 /\ \A j \in 1 .. 3 : a[j] = s[j]
    BY <2>1, FirstBytes
  <2> HIDE DEF a
  <2>3. ASSUME s[1] = 239, s[2] = 187, s[3] = 191 PROVE a = BOM
    <3>1. \A j \in 1 .. 3 : j = 1 \/ j = 2 \/ j = 3
      OBVIOUS
    <3>2. \A j \in 1 .. Len(a) : a[j] = BOM[j]
      BY <1>1, <2>2, <2>3, <3>1
    <3> DEFINE Y == X \cup Int
    <3>3. X \subseteq Y /\ Int \subseteq Y
      OBVIOUS
    <3> HIDE DEF Y
    <3>4. a \in Seq(Y) /\ BOM \in Seq(Y)
      BY <1>1, <2>2, <3>3, SeqWidens
    <3>5. Len(a) = Len(BOM)
      BY <1>1, <2>2
    <3> QED
      BY <3>2, <3>4, <3>5, SeqEqual
  <2>4. ASSUME a = BOM PROVE s[1] = 239 /\ s[2] = 187 /\ s[3] = 191
    BY <1>1, <2>1, <2>2, <2>4
  <2>5. IsPrefix(BOM, s) <=> a = BOM
    BY <1>1, <1>2, <1>3 DEF IsPrefix, a
  <2> QED
    BY <1>3, <2>3, <2>4, <2>5
<1>4. CASE ~ (Len(s) >= 3)
  BY <1>1, <1>4 DEF IsPrefix
<1> QED
  BY <1>3, <1>4

\* The first character is the mark when the text begins with it.
LEMMA MarkComesFirst ==
  ASSUME NEW X, NEW s \in Seq(X)
  PROVE  (Decoded(s) # <<>> /\ Head(Decoded(s)) = BOM) <=> IsPrefix(BOM, s)
<1>0. Len(BOM) = 3 /\ BOM[1] = 239 /\ BOM[2] = 187 /\ BOM[3] = 191 /\ BOM \in Seq(Int)
  BY DEF BOM
<1>1. CASE s = <<>>
  <2>1. Decoded(s) = <<>>
    BY <1>1, DecodedStep
  <2>2. ~ (Len(s) >= 3)
    BY <1>1
  <2>3. IsPrefix(BOM, s) => Len(s) >= 3
    BY MarkIs
  <2> QED
    BY <2>1, <2>2, <2>3
<1>2. CASE s # <<>>
  <2> DEFINE n == CharSize(s)
             a == SubSeq(s, 1, n)
  <2>1. n \in 1 .. Len(s) /\ Len(s) \in Nat /\ n \in 0 .. Len(s) /\ FirstChar(s) \in Seq(X)
    <3>1. n \in 1 .. Len(s) /\ FirstChar(s) \in Seq(X)
      BY <1>2, CharFits
    <3>2. Len(s) \in Nat
      OBVIOUS
    <3> HIDE DEF n
    <3> QED
      BY <3>1, <3>2
  <2>2. a \in Seq(X) /\ Len(a) = n /\ \A j \in 1 .. n : a[j] = s[j]
    BY <2>1, FirstBytes
  <2>3. Decoded(s) # <<>> /\ Head(Decoded(s)) = FirstChar(s)
    <3> DEFINE r == Decoded(SubSeq(s, n + 1, Len(s)))
               c == <<FirstChar(s)>>
    <3>1. Decoded(s) = c \o r
      BY <1>2, DecodedStep
    <3>2. n + 1 \in 1 .. Len(s) + 1
      BY <2>1
    <3>3. SubSeq(s, n + 1, Len(s)) \in Seq(X)
      BY <3>2, Rest
    <3>4. r \in Seq(Seq(X))
      BY <3>3, DecodedIsChars
    <3>5. c \in Seq(Seq(X)) /\ c # <<>> /\ Head(c) = FirstChar(s)
      BY <2>1
    <3> HIDE DEF r, c
    <3> QED
      BY <3>1, <3>4, <3>5, JoinedHead
  <2>4. FirstChar(s) = IF Begins(s, n) /\ n = Expected(s[1]) THEN a ELSE <<>>
    BY DEF FirstChar, Replacement
  <2>5. n \in 1 .. 4 /\ (n = 1 \/ Begins(s, n)) /\ \A k \in 1 .. 4 : Begins(s, k) => k <= n
    BY CharSizeIs
  <2> HIDE DEF a, n
  <2>6. ASSUME FirstChar(s) = BOM PROVE IsPrefix(BOM, s)
    <3>1. a = BOM
      <4>1. BOM # <<>>
        BY DEF BOM
      <4> QED
        BY <2>4, <2>6, <4>1
    <3>2. n = 3 /\ 1 \in 1 .. n /\ 2 \in 1 .. n /\ 3 \in 1 .. n
      BY <1>0, <2>2, <3>1
    <3> QED
      BY <1>0, <2>1, <2>2, <3>1, <3>2, MarkIs
  <2>7. ASSUME IsPrefix(BOM, s) PROVE FirstChar(s) = BOM
    <3>1. Len(s) >= 3 /\ s[1] = 239 /\ s[2] = 187 /\ s[3] = 191
      BY <2>7, MarkIs
    <3>2. Expected(239) = 3 /\ Seconds(239) = Continuation /\ 187 \in Continuation
          /\ 191 \in Continuation
      BY DEF Expected, Seconds, Continuation
    <3>3. Begins(s, 3)
      BY <2>1, <3>1, <3>2 DEF Begins
    <3>4. ~ Begins(s, 4)
      BY <3>1, <3>2 DEF Begins
    <3>5. n = 3
      BY <2>5, <3>3, <3>4
    <3>6. FirstChar(s) = a /\ a = SubSeq(s, 1, 3)
      BY <2>4, <3>1, <3>2, <3>3, <3>5 DEF a
    <3>7. SubSeq(BOM, 1, 3) = BOM
      BY <1>0, SubSeqFull
    <3> QED
      BY <1>0, <2>7, <3>6, <3>7 DEF IsPrefix
  <2> QED
    BY <2>3, <2>6, <2>7
<1> QED
  BY <1>1, <1>2

\* No part of a mark that begins a text is held back.
LEMMA MarkIsNotHeld ==
  ASSUME NEW X, NEW s \in Seq(X), IsPrefix(BOM, s)
  PROVE  Len(s) - IncompleteTail(s) >= 3
<1> DEFINE h == IncompleteTail(s)
           l == Len(s)
<1>1. l >= 3 /\ s[1] = 239 /\ s[2] = 187 /\ s[3] = 191 /\ l \in Nat
  BY MarkIs
<1>2. h \in 0 .. 3 /\ h <= l /\ (h # 0 => Expected(s[l - h + 1]) >= 2 /\ Expected(s[l - h + 1]) > h)
  BY HeldParts
<1>3. Expected(239) = 3 /\ Expected(187) = 0 /\ Expected(191) = 0
  BY DEF Expected
<1> HIDE DEF h, l
<1>4. SUFFICES ASSUME ~ (l - h >= 3) PROVE FALSE
  BY DEF h, l
<1>5. l - h + 1 = 1 \/ l - h + 1 = 2 \/ l - h + 1 = 3
  BY <1>1, <1>2, <1>4
<1>6. h # 0 /\ (l - h + 1 = 1 => h >= 3)
  BY <1>1, <1>2, <1>4
<1> QED
  BY <1>1, <1>2, <1>3, <1>5, <1>6

\* A text that is long enough begins with the mark when a longer one does.
LEMMA MarkOfLonger ==
  ASSUME NEW X, NEW s \in Seq(X), NEW t \in Seq(X)
  PROVE  /\ IsPrefix(BOM, s) => IsPrefix(BOM, s \o t)
         /\ Len(s) >= 3 /\ IsPrefix(BOM, s \o t) => IsPrefix(BOM, s)
<1>1. /\ s \o t \in Seq(X) /\ Len(s \o t) = Len(s) + Len(t) /\ Len(t) \in Nat /\ Len(s) \in Nat
      /\ \A k \in 1 .. Len(s) : (s \o t)[k] = s[k]
  BY JoinedParts
<1>2. Len(s) >= 3 => 1 \in 1 .. Len(s) /\ 2 \in 1 .. Len(s) /\ 3 \in 1 .. Len(s)
                     /\ Len(s) + Len(t) >= 3
  BY <1>1
<1> DEFINE u == s \o t
<1>0. u \in Seq(X)
  BY <1>1
<1>3. IsPrefix(BOM, s) <=> Len(s) >= 3 /\ s[1] = 239 /\ s[2] = 187 /\ s[3] = 191
  BY MarkIs
<1>4. IsPrefix(BOM, u) <=> Len(u) >= 3 /\ u[1] = 239 /\ u[2] = 187 /\ u[3] = 191
  <2> HIDE DEF u
  <2> QED
    BY <1>0, MarkIs
<1>5. Len(s) >= 3 => u[1] = s[1] /\ u[2] = s[2] /\ u[3] = s[3] /\ Len(u) >= 3
  BY <1>1, <1>2
<1> HIDE DEF u
<1>6. (IsPrefix(BOM, s) => IsPrefix(BOM, u)) /\ (Len(s) >= 3 /\ IsPrefix(BOM, u) => IsPrefix(BOM, s))
  BY <1>3, <1>4, <1>5
<1> QED
  BY <1>6 DEF u

\* Concatenation is associative, as a predicate that the provers do not unfold.
Regroups(a, b, c) == (a \o b) \o c = a \o (b \o c)

LEMMA JoinsRegroup ==
  ASSUME NEW X, NEW a \in Seq(X), NEW b \in Seq(X), NEW c \in Seq(X)
  PROVE  Regroups(a, b, c)
BY ConcatAssociative DEF Regroups

-----------------------------------------------------------------------------
(* The invariant.                                                          *)

\* The mark that the first call removed, or will.
Marked == ~ignoreBOM /\ first >= 3 /\ IsPrefix(BOM, given)

\* The first of these bytes is the lead of a character that has more of them.
AwaitsMore(s) == s # <<>> => Expected(s[1]) > Len(s)

\* Where the calls for a text stand.
Calls ==
  /\ {fatal, ignoreBOM, started, ended, threw, plain} \subseteq BOOLEAN
  /\ given \in Seq(Bytes) /\ pending \in Seq(Bytes) /\ begun \in BOOLEAN
  /\ Len(pending) <= 3 /\ first \in 0 .. MaxPiece /\ first <= Len(given)
  /\ AwaitsMore(pending)
  /\ ended => begun /\ pending = <<>>
  /\ ~begun => given = <<>> /\ text = <<>> /\ ~threw
  /\ ~begun /\ plain => ~started
  /\ begun /\ ~ended /\ ~threw => started

\* What was given is what was decoded and what is held back; no character goes on
\* from the one into the other, or beyond.
Progress(done) ==
  /\ given = done \o pending
  /\ ~ended => \A t \in Seq(Bytes) : Parted(given \o t, Len(done))
  /\ fatal => (threw <=> Replacement \in ToSet(Decoded(done)))
  /\ Marked => Len(done) >= 3
  /\ plain /\ ~threw => text = IF Marked THEN Tail(Decoded(done)) ELSE Decoded(done)

DecoderInv == Calls /\ \E done \in Seq(Bytes) : Progress(done)

\* With no text yet, nothing was decoded.
Nothing == given = <<>> /\ pending = <<>> /\ text = <<>> /\ threw = FALSE

LEMMA NothingDone == Nothing => Progress(<<>>)
<1> SUFFICES ASSUME Nothing PROVE Progress(<<>>)
  OBVIOUS
<1>1. <<>> \in Seq(Bytes) /\ <<>> \o <<>> = <<>> /\ Len(<<>>) = 0
  OBVIOUS
<1>2. Decoded(<<>>) = <<>>
  BY <1>1, DecodedStep
<1>3. ~ Marked
  <2>1. IsPrefix(BOM, <<>>) => Len(<<>>) >= 3
    BY <1>1, MarkIs
  <2>2. ~ IsPrefix(BOM, given)
    BY <1>1, <2>1 DEF Nothing
  <2> QED
    BY <2>2 DEF Marked
<1>4. ToSet(<<>>) = {}
  BY DEF ToSet
<1>5. \A t \in Seq(Bytes) : Parted(given \o t, 0)
  BY DEF Parted
<1> QED
  BY <1>1, <1>2, <1>3, <1>4, <1>5 DEF Progress, Nothing

LEMMA DecoderInvInit == DecoderInit => DecoderInv
<1> SUFFICES ASSUME DecoderInit PROVE DecoderInv
  OBVIOUS
<1>1. Calls
  <2>1. Len(given) = 0 /\ Len(pending) = 0 /\ 0 \in 0 .. MaxPiece
    BY BoundsAssumption DEF DecoderInit
  <2>2. <<>> \in Seq(Bytes) /\ 0 <= 0 /\ 0 <= 3
    OBVIOUS
  <2>3. AwaitsMore(pending)
    BY DEF DecoderInit, AwaitsMore
  <2> QED
    BY <2>1, <2>2, <2>3 DEF DecoderInit, Calls
<1>2. \E done \in Seq(Bytes) : Progress(done)
  <2>1. Progress(<<>>)
    BY NothingDone DEF DecoderInit, Nothing
  <2>2. <<>> \in Seq(Bytes)
    OBVIOUS
  <2> QED
    BY <2>1, <2>2
<1> QED
  BY <1>1, <1>2 DEF DecoderInv

\* The call has the bytes held back before its own, and holds back some of them.
LEMMA DecodeCuts ==
  ASSUME DecoderInv, NEW piece \in Pieces, NEW stream \in BOOLEAN, Decode(piece, stream)
  PROVE  LET bytes == pending \o piece
             ready == Len(bytes) - Held(bytes, stream)
         IN /\ piece \in Seq(Bytes) /\ Len(piece) \in 0 .. MaxPiece /\ bytes \in Seq(Bytes)
            /\ ready \in 0 .. Len(bytes) /\ SubSeq(bytes, 1, ready) \in Seq(Bytes)
            /\ Len(SubSeq(bytes, 1, ready)) = ready
            /\ pending' \in Seq(Bytes) /\ Len(pending') <= 3 /\ AwaitsMore(pending)'
            /\ bytes = SubSeq(bytes, 1, ready) \o pending'
            /\ ~stream => pending' = <<>>
            /\ stream => \A t \in Seq(Bytes) : Parted(bytes \o t, ready)
<1> DEFINE bytes == pending \o piece
           h == Held(bytes, stream)
           ready == Len(bytes) - h
<1>1. piece \in Seq(Bytes) /\ Len(piece) \in 0 .. MaxPiece
  <2>1. PICK m \in 0 .. MaxPiece : piece \in [1 .. m -> Bytes]
    BY DEF Pieces, BoundedSeq, SeqOf
  <2>2. m \in Nat /\ piece \in Seq(Bytes)
    BY <2>1, BoundsAssumption
  <2>3. Len(piece) = m
    BY <2>1, <2>2
  <2> QED
    BY <2>2, <2>3
<1>2. pending \in Seq(Bytes)
  BY DEF DecoderInv, Calls
<1>3. bytes \in Seq(Bytes) /\ Len(bytes) \in Nat
  BY <1>1, <1>2, ConcatProperties
<1>4. pending' = SubSeq(bytes, ready + 1, Len(bytes))
  BY DEF Decode
<1> HIDE DEF bytes
<1>5. h \in 0 .. 3 /\ h <= Len(bytes) /\ (~stream => h = 0)
  BY <1>3, HeldParts DEF Held
<1>6. stream => \A t \in Seq(Bytes) : Parted(bytes \o t, ready)
  BY <1>3, HeldParts DEF Held
<1>h. h # 0 => Expected(bytes[Len(bytes) - h + 1]) > h
  BY <1>3, HeldParts DEF Held
<1> HIDE DEF h
<1>7. ready \in 0 .. Len(bytes) /\ ready + 1 \in 1 .. Len(bytes) + 1
  BY <1>3, <1>5
<1>8. SubSeq(bytes, 1, ready) \in Seq(Bytes) /\ Len(SubSeq(bytes, 1, ready)) = ready
  BY <1>3, <1>7, FirstBytes
<1>9. pending' \in Seq(Bytes) /\ Len(pending') = Len(bytes) - (ready + 1) + 1
  BY <1>3, <1>4, <1>7, Rest
<1>10. Len(pending') = h
  BY <1>3, <1>5, <1>9
<1>11. ~stream => pending' = <<>>
  BY <1>5, <1>9, <1>10, EmptySeq
<1>12. bytes = SubSeq(bytes, 1, ready) \o pending'
  <2>1. 1 \in 1 .. Len(bytes) + 1 /\ ready \in 1 - 1 .. Len(bytes) /\ Len(bytes) \in ready .. Len(bytes)
    BY <1>3, <1>7
  <2>2. SubSeq(bytes, 1, ready) \o SubSeq(bytes, ready + 1, Len(bytes)) = SubSeq(bytes, 1, Len(bytes))
    BY <1>3, <2>1, ConcatAdjacentSubSeq
  <2>3. SubSeq(bytes, 1, Len(bytes)) = bytes
    BY <1>3, SubSeqFull
  <2> QED
    BY <1>4, <2>2, <2>3
<1>13. Len(pending') <= 3
  BY <1>5, <1>10
<1>14. AwaitsMore(pending)'
  <2>1. CASE h = 0
    BY <1>9, <1>10, <2>1, EmptySeq DEF AwaitsMore
  <2>2. CASE h # 0
    <3>1. ready + 1 = Len(bytes) - h + 1 /\ ready + 1 \in 1 .. Len(bytes) /\ h \in 1 .. 3
      BY <1>3, <1>5, <2>2
    <3>2. pending'[1] = bytes[ready + 1]
      <4>1. 1 \in 1 .. Len(pending') /\ ready + 1 + 1 - 1 = ready + 1
        BY <1>3, <1>5, <1>10, <3>1
      <4>2. \A j \in 1 .. Len(pending') : pending'[j] = bytes[ready + 1 + j - 1]
        BY <1>3, <1>4, <1>7, Rest
      <4> QED
        BY <4>1, <4>2
    <3> QED
      BY <1>h, <1>10, <2>2, <3>1, <3>2 DEF AwaitsMore
  <2> QED
    BY <2>1, <2>2
<1> QED
  BY <1>1, <1>3, <1>6, <1>7, <1>8, <1>9, <1>11, <1>12, <1>13, <1>14 DEF bytes, h

LEMMA DecodeKeepsCalls ==
  ASSUME DecoderInv, NEW piece \in Pieces, NEW stream \in BOOLEAN, Decode(piece, stream)
  PROVE  Calls'
<1>1. /\ piece \in Seq(Bytes) /\ Len(piece) \in 0 .. MaxPiece
      /\ pending' \in Seq(Bytes) /\ Len(pending') <= 3 /\ (~stream => pending' = <<>>)
      /\ AwaitsMore(pending)'
  BY DecodeCuts
<1>2. Calls
  BY DEF DecoderInv
<1>3. /\ given' = given \o piece /\ begun' = TRUE /\ ended' = ~stream /\ ~ended
      /\ first' = (IF ~begun THEN Len(piece) ELSE first)
      /\ UNCHANGED <<fatal, ignoreBOM, plain>>
  BY DEF Decode
<1>4. /\ given' \in Seq(Bytes) /\ Len(given') = Len(given) + Len(piece)
      /\ Len(given) \in Nat /\ Len(piece) \in Nat
  <2>1. given \in Seq(Bytes)
    BY <1>2 DEF Calls
  <2> QED
    BY <1>1, <1>3, <2>1, ConcatProperties
<1>5. first' \in 0 .. MaxPiece /\ first' <= Len(given')
  <2>1. first \in 0 .. MaxPiece /\ first <= Len(given)
    BY <1>2 DEF Calls
  <2>2. CASE begun
    BY <1>3, <1>4, <2>1, <2>2, BoundsAssumption
  <2>3. CASE ~begun
    BY <1>1, <1>3, <1>4, <2>3
  <2> QED
    BY <2>2, <2>3
<1>6. \/ threw' = TRUE /\ started' = started
      \/ threw' = threw /\ started' = stream
  BY DEF Decode
<1>7. {fatal, ignoreBOM, started, ended, threw, plain}' \subseteq BOOLEAN
  BY <1>2, <1>3, <1>6 DEF Calls
<1>8. begun' /\ ~ended' /\ ~threw' => started'
  BY <1>3, <1>6
<1>9. (ended' => begun' /\ pending' = <<>>) /\ begun' \in BOOLEAN
  BY <1>1, <1>3
<1> QED
  BY <1>1, <1>3, <1>4, <1>5, <1>7, <1>8, <1>9 DEF Calls

LEMMA DecodeProgresses ==
  ASSUME DecoderInv, NEW piece \in Pieces, NEW stream \in BOOLEAN, Decode(piece, stream)
  PROVE  \E done \in Seq(Bytes) : Progress(done)'
<1>a. ASSUME NEW x \in Seq(Bytes), NEW y \in Seq(Bytes)
      PROVE  /\ x \o y \in Seq(Bytes) /\ Len(x \o y) = Len(x) + Len(y)
             /\ Len(x) \in Nat /\ Len(y) \in Nat
  BY ConcatProperties
<1>c. PICK bytes : bytes = pending \o piece
  OBVIOUS
<1>d. PICK now : now = SubSeq(bytes, 1, Len(bytes) - Held(bytes, stream))
  OBVIOUS
<1>0. /\ piece \in Seq(Bytes) /\ bytes \in Seq(Bytes) /\ now \in Seq(Bytes)
      /\ Len(now) = Len(bytes) - Held(bytes, stream) /\ Len(now) \in 0 .. Len(bytes)
      /\ pending' \in Seq(Bytes) /\ bytes = now \o pending'
      /\ ~stream => pending' = <<>>
      /\ stream => \A t \in Seq(Bytes) : Parted(bytes \o t, Len(now))
  <2>1. /\ piece \in Seq(Bytes) /\ bytes \in Seq(Bytes)
        /\ Len(bytes) - Held(bytes, stream) \in 0 .. Len(bytes) /\ now \in Seq(Bytes)
        /\ Len(now) = Len(bytes) - Held(bytes, stream)
        /\ pending' \in Seq(Bytes) /\ bytes = now \o pending'
        /\ ~stream => pending' = <<>>
        /\ stream => \A t \in Seq(Bytes) : Parted(bytes \o t, Len(bytes) - Held(bytes, stream))
    BY <1>c, <1>d, DecodeCuts
  <2> QED
    BY <2>1
<1>1. PICK chars : chars = Decoded(now)
  OBVIOUS
<1>2. Calls
  BY DEF DecoderInv
<1>3. PICK done \in Seq(Bytes) : Progress(done)
  BY DEF DecoderInv
<1>4. /\ given' = given \o piece /\ begun' = TRUE /\ ended' = ~stream /\ ~ended
      /\ first' = (IF ~begun THEN Len(piece) ELSE first)
      /\ UNCHANGED <<fatal, ignoreBOM, plain>>
  BY DEF Decode
<1>5. \/ /\ fatal /\ Replacement \in ToSet(chars) /\ threw' = TRUE
      \/ /\ ~fatal \/ Replacement \notin ToSet(chars)
         /\ text' = text \o WithoutMark(chars)
         /\ threw' = threw
  BY <1>c, <1>d, <1>1 DEF Decode
<1>6. given \in Seq(Bytes) /\ pending \in Seq(Bytes) /\ given = done \o pending
  BY <1>2, <1>3 DEF Calls, Progress
<1>7. given' = done \o bytes
  <2>0. done \in Seq(Bytes) /\ pending \in Seq(Bytes) /\ piece \in Seq(Bytes)
    BY <1>0, <1>6
  <2>1. Regroups(done, pending, piece)
    BY <2>0, JoinsRegroup
  <2>2. (done \o pending) \o piece = done \o (pending \o piece)
    BY Zenon, <2>1 DEF Regroups
  <2> QED
    BY Zenon, <1>c, <1>4, <1>6, <2>2
<1>8. PICK then \in Seq(Bytes) :
        /\ then = done \o now /\ Len(then) = Len(done) + Len(now)
        /\ Len(done) \in Nat /\ Len(now) \in Nat
  BY <1>0, <1>a
<1>9. given' = then \o pending'
  <2>0. done \in Seq(Bytes) /\ now \in Seq(Bytes) /\ pending' \in Seq(Bytes)
    BY <1>0
  <2>1. Regroups(done, now, pending')
    BY <2>0, JoinsRegroup
  <2>2. (done \o now) \o pending' = done \o (now \o pending')
    BY Zenon, <2>1 DEF Regroups
  <2>3. bytes = now \o pending' /\ then = done \o now
    BY <1>0, <1>8
  <2> QED
    BY Zenon, <1>7, <2>2, <2>3
<1>10. \A t \in Seq(Bytes) : Parted(given \o t, Len(done))
  BY <1>3, <1>4 DEF Progress
<1>11. Decoded(then) = Decoded(done) \o chars
  <2>1. Parted(given', Len(done))
    BY <1>0, <1>4, <1>10
  <2>2. Parted(then \o pending', Len(done))
    BY <1>9, <2>1
  <2>3. Len(done) \in 0 .. Len(then)
    BY <1>8
  <2>4. Parted(then, Len(done))
    BY <1>0, <1>8, <2>2, <2>3, PartedShorter
  <2>5. Parted(done \o now, Len(done))
    BY <1>8, <2>4
  <2>6. Decoded(done \o now) = Decoded(done) \o Decoded(now)
    BY <1>0, <2>5, JoinDecodes
  <2> QED
    BY <1>1, <1>8, <2>6
<1>12. chars \in Seq(Seq(Bytes)) /\ Decoded(done) \in Seq(Seq(Bytes))
  BY <1>0, <1>1, DecodedIsChars
<1>13. ASSUME ~ended', NEW t \in Seq(Bytes) PROVE Parted(given' \o t, Len(then))
  <2>1. PICK b \in Seq(Bytes) : b = bytes \o t /\ Len(b) = Len(bytes) + Len(t)
                                /\ Len(bytes) \in Nat /\ Len(t) \in Nat
    BY <1>0, <1>a
  <2>2. PICK c \in Seq(Bytes) : c = piece \o t
    BY <1>0, <1>a
  <2>3. given' \o t = done \o b
    <3>1. done \in Seq(Bytes) /\ bytes \in Seq(Bytes) /\ t \in Seq(Bytes)
      BY <1>0
    <3>2. Regroups(done, bytes, t)
      BY <3>1, JoinsRegroup
    <3>3. (done \o bytes) \o t = done \o (bytes \o t)
      BY Zenon, <3>2 DEF Regroups
    <3>4. b = bytes \o t
      BY <2>1
    <3> QED
      BY Zenon, <1>7, <3>3, <3>4
  <2>4. given' \o t = given \o c
    <3>1. given \in Seq(Bytes) /\ piece \in Seq(Bytes) /\ t \in Seq(Bytes)
      BY <1>0, <1>6
    <3>2. Regroups(given, piece, t)
      BY <3>1, JoinsRegroup
    <3>3. (given \o piece) \o t = given \o (piece \o t)
      BY Zenon, <3>2 DEF Regroups
    <3>4. given' = given \o piece
      BY <1>4
    <3> QED
      BY Zenon, <2>2, <3>3, <3>4
  <2>5. Parted(done \o b, Len(done))
    BY <1>10, <2>3, <2>4
  <2>6. Len(now) \in 0 .. Len(b)
    BY <1>0, <2>1
  <2>7. Parted(b, Len(now))
    BY <1>0, <1>4, <1>13, <2>1
  <2>8. Parted(done \o b, Len(done) + Len(now))
    BY <2>5, <2>6, <2>7, PartedFurther
  <2> QED
    BY <1>8, <2>3, <2>8
<1>14. fatal' => (threw' <=> Replacement \in ToSet(Decoded(then)))
  <2>1. ToSet(Decoded(then)) = ToSet(Decoded(done)) \cup ToSet(chars)
    <3>1. ToSet(Decoded(done) \o chars) = ToSet(Decoded(done)) \cup ToSet(chars)
      BY <1>12, JoinedSet
    <3> QED
      BY <1>11, <3>1
  <2>2. fatal => (threw <=> Replacement \in ToSet(Decoded(done)))
    BY <1>3 DEF Progress
  <2> QED
    BY <1>4, <1>5, <2>1, <2>2
<1>15. (Marked' => Len(then) >= 3)
       /\ (plain' /\ ~threw' => text' = IF Marked' THEN Tail(Decoded(then)) ELSE Decoded(then))
  <2>1. CASE ~begun
    <3>1. given = <<>> /\ text = <<>> /\ ~threw /\ (plain => ~started)
      BY <1>2, <2>1 DEF Calls
    <3>2. done = <<>> /\ pending = <<>>
      <4>1. done \o pending = <<>> <=> done = <<>> /\ pending = <<>>
        BY <1>6, ConcatEqualIffEmpty
      <4> QED
        BY <1>6, <3>1, <4>1
    <3>3. bytes = piece /\ given' = piece /\ then = now
      <4>1. <<>> \o piece = piece /\ <<>> \o now = now
        BY <1>0, ConcatEmptySeq
      <4> QED
        BY <1>c, <1>4, <1>8, <3>1, <3>2, <4>1
    <3>4. Marked' <=> ~ignoreBOM /\ Len(piece) >= 3 /\ IsPrefix(BOM, piece)
      BY <1>4, <2>1, <3>3 DEF Marked
    <3>5. ASSUME IsPrefix(BOM, piece) PROVE Len(now) >= 3
      <4>1. IsPrefix(BOM, bytes)
        BY <3>3, <3>5
      <4>2. Len(bytes) - IncompleteTail(bytes) >= 3 /\ Len(bytes) >= 3
        BY <1>0, <4>1, MarkIs, MarkIsNotHeld
      <4>3. Len(bytes) - 0 = Len(bytes)
        BY <1>0
      <4> QED
        BY <1>0, <4>2, <4>3 DEF Held
    <3>6. IsPrefix(BOM, now) <=> IsPrefix(BOM, piece)
      <4>1. piece = now \o pending'
        BY <1>0, <3>3
      <4>2. /\ IsPrefix(BOM, now) => IsPrefix(BOM, now \o pending')
            /\ Len(now) >= 3 /\ IsPrefix(BOM, now \o pending') => IsPrefix(BOM, now)
        BY <1>0, MarkOfLonger
      <4>3. IsPrefix(BOM, now) => IsPrefix(BOM, piece)
        BY <4>1, <4>2
      <4>4. IsPrefix(BOM, piece) => IsPrefix(BOM, now)
        BY <3>5, <4>1, <4>2
      <4> QED
        BY <4>3, <4>4
    <3>7. IsPrefix(BOM, piece) => Len(piece) >= 3
      BY <1>0, MarkIs
    <3>8. (chars # <<>> /\ Head(chars) = BOM) <=> IsPrefix(BOM, now)
      BY <1>0, <1>1, MarkComesFirst
    <3>9. Marked' => Len(then) >= 3
      BY <1>0, <3>3, <3>4, <3>5
    <3>10. ASSUME plain', ~threw' PROVE text' = IF Marked' THEN Tail(Decoded(then)) ELSE Decoded(then)
      <4>1. ~started /\ text' = text \o WithoutMark(chars)
        BY <1>4, <1>5, <3>1, <3>10
      <4>2. WithoutMark(chars) = IF Marked' THEN Tail(chars) ELSE chars
        BY <3>4, <3>6, <3>7, <3>8, <4>1 DEF WithoutMark
      <4>3. Decoded(then) = chars
        BY <1>1, <3>3
      <4>4. WithoutMark(chars) \in Seq(Seq(Bytes))
        <5>1. chars # <<>> => Tail(chars) \in Seq(Seq(Bytes))
          BY <1>12, HeadTailProperties
        <5> QED
          BY <1>12, <5>1 DEF WithoutMark
      <4> DEFINE w == WithoutMark(chars)
                 Y == Seq(Bytes)
      <4>5. w \in Seq(Y)
        BY <4>4
      <4> HIDE DEF w, Y
      <4>6. <<>> \o w = w
        BY <4>5, ConcatEmptySeq
      <4>7. text' = w
        BY <3>1, <4>1, <4>6 DEF w
      <4> QED
        BY <4>2, <4>3, <4>7 DEF w
    <3> QED
      BY <3>9, <3>10
  <2>2. CASE begun
    <3>1. ~threw => started
      BY <1>2, <1>4, <2>2 DEF Calls
    <3>2. /\ Marked => Len(done) >= 3
          /\ plain /\ ~threw => text = IF Marked THEN Tail(Decoded(done)) ELSE Decoded(done)
      BY <1>3 DEF Progress
    <3>3. Marked' <=> Marked
      <4>1. first <= Len(given) /\ first \in Int
        BY <1>2 DEF Calls
      <4>2. Len(given) \in Int
        BY <1>6
      <4>3. first >= 3 => Len(given) >= 3
        BY <4>1, <4>2
      <4>4. /\ IsPrefix(BOM, given) => IsPrefix(BOM, given \o piece)
            /\ Len(given) >= 3 /\ IsPrefix(BOM, given \o piece) => IsPrefix(BOM, given)
        BY <1>0, <1>6, MarkOfLonger
      <4> QED
        BY <1>4, <2>2, <4>3, <4>4 DEF Marked
    <3>4. Marked' => Len(then) >= 3
      BY <1>8, <3>2, <3>3
    <3>5. ASSUME plain', ~threw' PROVE text' = IF Marked' THEN Tail(Decoded(then)) ELSE Decoded(then)
      <4>1. plain /\ ~threw /\ started /\ text' = text \o chars
        BY <1>4, <1>5, <3>1, <3>5 DEF WithoutMark
      <4>2. CASE Marked
        <5>1. Decoded(done) # <<>>
          <6>1. Len(done) >= 3
            BY <3>2, <4>2
          <6>2. done # <<>>
            BY <6>1
          <6> DEFINE r == Decoded(SubSeq(done, CharSize(done) + 1, Len(done)))
                     c == <<FirstChar(done)>>
          <6>3. Decoded(done) = c \o r
            BY <6>2, DecodedStep
          <6>4. CharSize(done) \in 1 .. Len(done) /\ FirstChar(done) \in Seq(Bytes)
            BY <6>2, CharFits
          <6>5. CharSize(done) + 1 \in 1 .. Len(done) + 1
            BY <6>4
          <6>6. r \in Seq(Seq(Bytes))
            BY <6>5, Rest, DecodedIsChars
          <6>7. c \in Seq(Seq(Bytes)) /\ c # <<>>
            BY <6>4
          <6> HIDE DEF r, c
          <6> QED
            BY <6>3, <6>6, <6>7, JoinedHead
        <5>2. Tail(Decoded(done) \o chars) = Tail(Decoded(done)) \o chars
          BY <1>12, <5>1, JoinedHead
        <5> QED
          BY <1>11, <3>2, <3>3, <4>1, <4>2, <5>2
      <4>3. CASE ~Marked
        BY <1>11, <3>2, <3>3, <4>1, <4>3
      <4> QED
        BY <4>2, <4>3
    <3> QED
      BY <3>4, <3>5
  <2> QED
    BY <1>2, <2>1, <2>2 DEF Calls
<1>16. Progress(then)'
  BY <1>9, <1>13, <1>14, <1>15 DEF Progress
<1> QED
  BY <1>8, <1>16

LEMMA DecoderInvNext == DecoderInv /\ [DecoderNext]_decoderVars => DecoderInv'
<1> SUFFICES ASSUME DecoderInv, [DecoderNext]_decoderVars PROVE DecoderInv'
  OBVIOUS
<1>1. ASSUME NEW piece \in Pieces, NEW stream \in BOOLEAN, Decode(piece, stream)
      PROVE  DecoderInv'
  <2>1. Calls'
    BY <1>1, DecodeKeepsCalls
  <2>2. \E done \in Seq(Bytes) : Progress(done)'
    BY <1>1, DecodeProgresses
  <2> QED
    BY <2>1, <2>2 DEF DecoderInv
<1>2. ASSUME NoText, pending' = <<>>, UNCHANGED <<fatal, ignoreBOM>>,
             started' \in BOOLEAN, plain' \in BOOLEAN, plain' => ~started'
      PROVE  DecoderInv'
  <2>1. /\ given' = <<>> /\ text' = <<>> /\ threw' = FALSE /\ begun' = FALSE /\ ended' = FALSE
        /\ first' = 0
    BY <1>2 DEF NoText
  <2>2. Len(given') = 0 /\ Len(pending') = 0 /\ 0 \in 0 .. MaxPiece /\ <<>> \in Seq(Bytes)
        /\ 0 <= 0 /\ 0 <= 3
    BY <1>2, <2>1, BoundsAssumption
  <2>3. Calls
    BY DEF DecoderInv
  <2>4. fatal \in BOOLEAN /\ ignoreBOM \in BOOLEAN
    BY <2>3 DEF Calls
  <2>5. Calls'
    BY <1>2, <2>1, <2>2, <2>4 DEF Calls, AwaitsMore
  <2>6. Nothing'
    BY <1>2, <2>1 DEF Nothing
  <2>7. Progress(<<>>)'
    BY <2>6, NothingDone, PTL
  <2> QED
    BY <2>2, <2>5, <2>7 DEF DecoderInv
<1>3. CASE Reset
  BY <1>2, <1>3 DEF Reset
<1>4. CASE NextText
  <2>1. Calls
    BY DEF DecoderInv
  <2>2. started \in BOOLEAN /\ pending = <<>>
    BY <1>4, <2>1 DEF Calls, NextText
  <2> QED
    BY <1>2, <1>4, <2>2 DEF NextText
<1>5. CASE UNCHANGED decoderVars
  <2>1. PICK done \in Seq(Bytes) : Progress(done)
    BY DEF DecoderInv
  <2>2. Progress(done)'
    BY <1>5, <2>1 DEF Progress, Marked, decoderVars
  <2>3. Calls'
    BY <1>5 DEF DecoderInv, Calls, AwaitsMore, decoderVars
  <2> QED
    BY <2>2, <2>3 DEF DecoderInv
<1> QED
  BY <1>1, <1>3, <1>4, <1>5 DEF DecoderNext

LEMMA DecoderInvariant == DecoderSpec => []DecoderInv
<1> QED
  BY DecoderInvInit, DecoderInvNext, PTL DEF DecoderSpec

-----------------------------------------------------------------------------
(* The theorems.                                                           *)

LEMMA JoinedSuffix ==
  ASSUME NEW X, NEW s \in Seq(X), NEW t \in Seq(X)
  PROVE  IsSuffix(t, s \o t)
<1> DEFINE u == s \o t
           a == Reverse(t)
           b == Reverse(u)
<1>1. /\ u \in Seq(X) /\ Len(u) = Len(s) + Len(t) /\ Len(t) \in Nat /\ Len(s) \in Nat
      /\ \A k \in 1 .. Len(t) : u[Len(s) + k] = t[k]
  BY JoinedParts
<1> HIDE DEF u
<1>2. a = [i \in 1 .. Len(t) |-> t[(Len(t) - i) + 1]] /\ a \in Seq(X) /\ Len(a) = Len(t)
  BY <1>1 DEF Reverse
<1>3. b = [i \in 1 .. Len(u) |-> u[(Len(u) - i) + 1]] /\ b \in Seq(X) /\ Len(b) = Len(u)
  BY <1>1 DEF Reverse
<1> HIDE DEF a, b
<1> DEFINE c == SubSeq(a, 1, Len(a))
           d == SubSeq(b, 1, Len(a))
<1>4. Len(a) \in 0 .. Len(a) /\ Len(a) \in 0 .. Len(b) /\ Len(a) <= Len(b)
  BY <1>1, <1>2, <1>3
<1>5. c \in Seq(X) /\ Len(c) = Len(a) /\ \A j \in 1 .. Len(a) : c[j] = a[j]
  BY <1>2, <1>4, FirstBytes
<1>6. d \in Seq(X) /\ Len(d) = Len(a) /\ \A j \in 1 .. Len(a) : d[j] = b[j]
  BY <1>3, <1>4, FirstBytes
<1> HIDE DEF c, d
<1>7. ASSUME NEW j \in 1 .. Len(c) PROVE c[j] = d[j]
  <2>1. j \in 1 .. Len(t) /\ j \in 1 .. Len(u)
    BY <1>1, <1>2, <1>5
  <2>2. a[j] = t[(Len(t) - j) + 1] /\ b[j] = u[(Len(u) - j) + 1]
    BY <1>2, <1>3, <2>1
  <2>3. (Len(u) - j) + 1 = Len(s) + ((Len(t) - j) + 1) /\ (Len(t) - j) + 1 \in 1 .. Len(t)
    <3>1. j \in Int /\ j >= 1 /\ j <= Len(t) /\ Len(u) = Len(s) + Len(t)
          /\ Len(t) \in Int /\ Len(s) \in Int
      BY <1>1, <2>1
    <3> QED
      BY ONLY <3>1
  <2>4. b[j] = t[(Len(t) - j) + 1]
    BY <1>1, <2>2, <2>3
  <2> QED
    BY <1>5, <1>6, <2>2, <2>4
<1>8. c = d
  BY <1>5, <1>6, <1>7, SeqEqual
<1> QED
  BY <1>4, <1>8 DEF IsSuffix, IsPrefix, a, b, c, d, u

LEMMA DecoderInvType == DecoderInv => DecoderTypeOK
<1> SUFFICES ASSUME DecoderInv PROVE DecoderTypeOK
  OBVIOUS
<1>1. PICK done \in Seq(Bytes) : Progress(done)
  BY DEF DecoderInv
<1>2. Calls
  BY DEF DecoderInv
<1>3. IsSuffix(pending, done \o pending)
  BY <1>2, JoinedSuffix DEF Calls
<1>4. IsSuffix(pending, given)
  BY <1>1, <1>3 DEF Progress
<1> QED
  BY <1>2, <1>4 DEF DecoderTypeOK, Calls, AwaitsMore

LEMMA DecoderInvWhole == DecoderInv => PiecesMakeTheWhole
<1> SUFFICES ASSUME DecoderInv, plain, ~threw, ~MarkSplit PROVE text \o Decoded(pending) = Whole
  BY DEF PiecesMakeTheWhole
<1>1. PICK done \in Seq(Bytes) : Progress(done)
  BY DEF DecoderInv
<1>2. Calls
  BY DEF DecoderInv
<1>3. given \in Seq(Bytes) /\ pending \in Seq(Bytes) /\ given = done \o pending
  BY <1>1, <1>2 DEF Calls, Progress
<1>4. Parted(done \o pending, Len(done))
  <2>1. CASE ended
    <3>1. pending = <<>>
      BY <1>2, <2>1 DEF Calls
    <3>2. done \o pending = done /\ Len(done) \in Nat
      BY <3>1, ConcatEmptySeq
    <3>3. ASSUME NEW p \in 1 .. Len(done), NEW k \in 1 .. 4, BeginsAt(done, p, k)
          PROVE  p + k - 1 <= Len(done)
      BY <3>3 DEF BeginsAt
    <3> QED
      BY <3>2, <3>3 DEF Parted
  <2>2. CASE ~ended
    <3>1. Parted(given \o <<>>, Len(done))
      <4>1. <<>> \in Seq(Bytes)
        OBVIOUS
      <4> QED
        BY <1>1, <2>2, <4>1 DEF Progress
    <3>2. given \o <<>> = given
      BY <1>3, ConcatEmptySeq
    <3> QED
      BY <1>3, <3>1, <3>2
  <2> QED
    BY <2>1, <2>2
<1>5. PICK a, b : a = Decoded(done) /\ b = Decoded(pending)
  OBVIOUS
<1>6. Decoded(given) = a \o b
  <2>1. Decoded(done \o pending) = Decoded(done) \o Decoded(pending)
    BY <1>3, <1>4, JoinDecodes
  <2> QED
    BY <1>3, <1>5, <2>1
<1>7. a \in Seq(Seq(Bytes)) /\ b \in Seq(Seq(Bytes))
  BY <1>3, <1>5, DecodedIsChars
<1>8. (Decoded(given) # <<>> /\ Head(Decoded(given)) = BOM) <=> IsPrefix(BOM, given)
  BY <1>3, MarkComesFirst
<1>9. (a # <<>> /\ Head(a) = BOM) <=> IsPrefix(BOM, done)
  BY <1>5, MarkComesFirst
<1>10. (Marked => Len(done) >= 3) /\ (text = IF Marked THEN Tail(a) ELSE a)
  BY <1>1, <1>5 DEF Progress
<1>11. Marked <=> ~ignoreBOM /\ IsPrefix(BOM, given)
  <2>1. first \in Int /\ Len(BOM) = 3
    BY <1>2 DEF BOM, Calls
  <2> QED
    BY <2>1 DEF Marked, MarkSplit
<1>12. CASE Marked
  <2>1. IsPrefix(BOM, done)
    <3>1. Len(done) >= 3 /\ IsPrefix(BOM, done \o pending)
      BY <1>3, <1>10, <1>12 DEF Marked
    <3> QED
      BY <1>3, <3>1, MarkOfLonger
  <2>2. a # <<>>
    BY <1>9, <2>1
  <2>3. Tail(a \o b) = Tail(a) \o b
    BY <1>7, <2>2, JoinedHead
  <2>4. Whole = Tail(a \o b)
    BY <1>6, <1>8, <1>11, <1>12 DEF Whole
  <2> QED
    BY <1>5, <1>10, <1>12, <2>3, <2>4
<1>13. CASE ~Marked
  <2>1. Whole = a \o b
    BY <1>6, <1>8, <1>11, <1>13 DEF Whole
  <2> QED
    BY <1>5, <1>10, <1>13, <2>1
<1> QED
  BY <1>12, <1>13

LEMMA DecoderInvFatal == DecoderInv => FatalIsExact
<1> SUFFICES ASSUME DecoderInv, fatal, ended PROVE threw <=> ~Valid(given)
  BY DEF FatalIsExact
<1>1. PICK done \in Seq(Bytes) : Progress(done)
  BY DEF DecoderInv
<1>2. Calls
  BY DEF DecoderInv
<1>3. pending = <<>>
  BY <1>2 DEF Calls
<1>4. given = done
  BY <1>1, <1>3, ConcatEmptySeq DEF Progress
<1> QED
  BY <1>1, <1>4 DEF Progress, Valid

\* What the decoder holds back is at most three bytes, the last ones of those it was
\* given, of which the first is the lead of a character longer than they are, and none
\* once the text ended (incomplete_tail, this._pending).  Nothing is said of the bytes
\* after the lead, which the code does not look at.
THEOREM DecoderTypeCorrect == DecoderSpec => []DecoderTypeOK
<1> QED
  BY DecoderInvariant, DecoderInvType, PTL

\* However a text is cut into pieces, the characters returned are those of the whole,
\* but for a mark that was split: for every set of bytes and pieces of any length.
THEOREM DecoderPiecesMakeTheWhole == DecoderSpec => []PiecesMakeTheWhole
<1> QED
  BY DecoderInvariant, DecoderInvWhole, PTL

\* A fatal decoder has thrown by the end of a text exactly when the whole is invalid.
THEOREM DecoderFatalIsExact == DecoderSpec => []FatalIsExact
<1> QED
  BY DecoderInvariant, DecoderInvFatal, PTL

-----------------------------------------------------------------------------
(* base64: groups of three bytes and of four sextets.                      *)

\* The group of three, or of four, that element i of an array is in.
LEMMA Groups ==
  ASSUME NEW i \in Nat, i >= 1
  PROVE  /\ (i - 1) \div 3 \in Nat /\ ((i - 1) % 3) + 1 \in 1 .. 3
         /\ i = 3 * ((i - 1) \div 3) + ((i - 1) % 3) + 1
         /\ (i - 1) \div 4 \in Nat /\ ((i - 1) % 4) + 1 \in 1 .. 4
         /\ i = 4 * ((i - 1) \div 4) + ((i - 1) % 4) + 1
  BY SMT

LEMMA InGroup ==
  ASSUME NEW g \in Nat
  PROVE  /\ \A j \in 1 .. 3 : ((3 * g + j) - 1) \div 3 = g /\ (((3 * g + j) - 1) % 3) + 1 = j
         /\ \A j \in 1 .. 4 : ((4 * g + j) - 1) \div 4 = g /\ (((4 * g + j) - 1) % 4) + 1 = j
  BY SMT

\* How many sextets so many bytes need, and how many are used in each group.
LEMMA SextetsNeeded ==
  ASSUME NEW l \in Nat
  PROVE  /\ (4 * l + 2) \div 3 \in Nat /\ ((4 * l + 2) \div 3) % 4 # 1
         /\ (3 * ((4 * l + 2) \div 3)) \div 4 = l
         /\ \A g \in Nat :
              /\ l >= 3 * g + 3 => (4 * l + 2) \div 3 >= 4 * g + 4
              /\ l = 3 * g + 2 => (4 * l + 2) \div 3 = 4 * g + 3
              /\ l = 3 * g + 1 => (4 * l + 2) \div 3 = 4 * g + 2
              /\ l <= 3 * g => (4 * l + 2) \div 3 <= 4 * g
  BY SMT

LEMMA BytesMade ==
  ASSUME NEW l \in Nat, l % 4 # 1
  PROVE  /\ (3 * l) \div 4 \in Nat /\ (4 * ((3 * l) \div 4) + 2) \div 3 = l
         /\ \A g \in Nat :
              /\ l >= 4 * g + 4 => (3 * l) \div 4 >= 3 * g + 3
              /\ l = 4 * g + 3 => (3 * l) \div 4 = 3 * g + 2
              /\ l = 4 * g + 2 => (3 * l) \div 4 = 3 * g + 1
              /\ l <= 4 * g => (3 * l) \div 4 <= 3 * g
              /\ l # 4 * g + 1
  BY SMT

\* Three bytes and four sextets as 24 bits.
Octets == 0 .. 255
Fits(n) == n \in Nat /\ n <= 16777215
OfThree(a, b, c) == 65536 * a + 256 * b + c
OfFour(a, b, c, d) == 262144 * a + 4096 * b + 64 * c + d

\* The elements of both.
LEMMA Parts ==
  ASSUME NEW n
  PROVE  /\ AsBytes(n)[1] = n \div 65536 /\ AsBytes(n)[2] = (n \div 256) % 256
         /\ AsBytes(n)[3] = n % 256
         /\ AsSextets(n)[1] = n \div 262144 /\ AsSextets(n)[2] = (n \div 4096) % 64
         /\ AsSextets(n)[3] = (n \div 64) % 64 /\ AsSextets(n)[4] = n % 64
  BY DEF AsBytes, AsSextets

\* 24 bits are those of their bytes, and those of their sextets.
LEMMA BytesOfBits ==
  ASSUME NEW n, Fits(n)
  PROVE  /\ AsBytes(n)[1] \in Octets /\ AsBytes(n)[2] \in Octets /\ AsBytes(n)[3] \in Octets
         /\ n = OfThree(AsBytes(n)[1], AsBytes(n)[2], AsBytes(n)[3])
<1>1. n \in Nat /\ n <= 16777215
  BY SMT DEF Fits
<1>2. PICK a \in 0 .. 255 : a = n \div 65536
  BY <1>1, SMT
<1>3. PICK b \in 0 .. 255 : b = (n \div 256) % 256
  BY <1>1, SMT
<1>4. PICK c \in 0 .. 255 : c = n % 256
  BY <1>1, SMT
<1>5. n = OfThree(a, b, c)
  BY <1>1, <1>2, <1>3, <1>4, SMT DEF OfThree
<1>6. AsBytes(n)[1] = a /\ AsBytes(n)[2] = b /\ AsBytes(n)[3] = c
  BY <1>2, <1>3, <1>4, Parts, SMT
<1> QED
  BY <1>5, <1>6, SMT DEF Octets

LEMMA SextetsOfBits ==
  ASSUME NEW n, Fits(n)
  PROVE  /\ AsSextets(n)[1] \in Sextets /\ AsSextets(n)[2] \in Sextets
         /\ AsSextets(n)[3] \in Sextets /\ AsSextets(n)[4] \in Sextets
         /\ n = OfFour(AsSextets(n)[1], AsSextets(n)[2], AsSextets(n)[3], AsSextets(n)[4])
<1>1. n \in Nat /\ n <= 16777215
  BY SMT DEF Fits
<1>2. PICK a \in 0 .. 63 : a = n \div 262144
  BY <1>1, SMT
<1>3. PICK b \in 0 .. 63 : b = (n \div 4096) % 64
  BY <1>1, SMT
<1>4. PICK c \in 0 .. 63 : c = (n \div 64) % 64
  BY <1>1, SMT
<1>5. PICK d \in 0 .. 63 : d = n % 64
  BY <1>1, SMT
<1>6. n = OfFour(a, b, c, d)
  BY <1>1, <1>2, <1>3, <1>4, <1>5, SMT DEF OfFour
<1>7. AsSextets(n)[1] = a /\ AsSextets(n)[2] = b /\ AsSextets(n)[3] = c /\ AsSextets(n)[4] = d
  BY <1>2, <1>3, <1>4, <1>5, Parts, SMT
<1> QED
  BY <1>6, <1>7, SMT DEF Sextets

\* Three bytes are the bytes of their bits, and where the last ones are missing so
\* are the last sextets; four sextets are the sextets of their bits.
LEMMA BitsOfThree ==
  ASSUME NEW a \in Octets, NEW b \in Octets, NEW c \in Octets, NEW n, n = OfThree(a, b, c)
  PROVE  /\ Fits(n)
         /\ AsBytes(n)[1] = a /\ AsBytes(n)[2] = b /\ AsBytes(n)[3] = c
         /\ c = 0 => AsSextets(n)[4] = 0
         /\ b = 0 /\ c = 0 => AsSextets(n)[3] = 0
<1>1. /\ a \in 0 .. 255 /\ b \in 0 .. 255 /\ c \in 0 .. 255
      /\ n \in Nat /\ n <= 16777215 /\ n = 65536 * a + 256 * b + c
  BY SMT DEF OfThree, Octets
<1>2. n \div 65536 = a /\ (n \div 256) % 256 = b /\ n % 256 = c
  BY <1>1, SMT
<1>3. /\ c = 0 => n % 64 = 0
      /\ b = 0 /\ c = 0 => (n \div 64) % 64 = 0
  BY <1>1, SMT
<1>4. /\ AsBytes(n)[1] = n \div 65536 /\ AsBytes(n)[2] = (n \div 256) % 256
      /\ AsBytes(n)[3] = n % 256
      /\ AsSextets(n)[3] = (n \div 64) % 64 /\ AsSextets(n)[4] = n % 64
  BY Parts, SMT
<1>5. Fits(n)
  BY <1>1, SMT DEF Fits
<1> QED
  BY <1>2, <1>3, <1>4, <1>5, SMT

LEMMA BitsOfFour ==
  ASSUME NEW a \in Sextets, NEW b \in Sextets, NEW c \in Sextets, NEW d \in Sextets,
         NEW n, n = OfFour(a, b, c, d)
  PROVE  /\ Fits(n)
         /\ AsSextets(n)[1] = a /\ AsSextets(n)[2] = b
         /\ AsSextets(n)[3] = c /\ AsSextets(n)[4] = d
<1>1. /\ a \in 0 .. 63 /\ b \in 0 .. 63 /\ c \in 0 .. 63 /\ d \in 0 .. 63
      /\ n \in Nat /\ n <= 16777215 /\ n = 262144 * a + 4096 * b + 64 * c + d
  BY SMT DEF OfFour, Sextets
<1>2. /\ n \div 262144 = a /\ (n \div 4096) % 64 = b
      /\ (n \div 64) % 64 = c /\ n % 64 = d
  BY <1>1, SMT
<1>3. /\ AsSextets(n)[1] = n \div 262144 /\ AsSextets(n)[2] = (n \div 4096) % 64
      /\ AsSextets(n)[3] = (n \div 64) % 64 /\ AsSextets(n)[4] = n % 64
  BY Parts, SMT
<1>4. Fits(n)
  BY <1>1, SMT DEF Fits
<1> QED
  BY <1>2, <1>3, <1>4, SMT

\* The first byte alone has the first sextet, and two bytes have the first two.
LEMMA FirstSextets ==
  ASSUME NEW x \in Octets, NEW y \in Octets, NEW z \in Octets
  PROVE  /\ AsSextets(OfThree(x, 0, 0))[1] = AsSextets(OfThree(x, y, z))[1]
         /\ AsSextets(OfThree(x, y, 0))[1] = AsSextets(OfThree(x, y, z))[1]
         /\ AsSextets(OfThree(x, y, 0))[2] = AsSextets(OfThree(x, y, z))[2]
<1>1. x \in 0 .. 255 /\ y \in 0 .. 255 /\ z \in 0 .. 255
  BY SMT DEF Octets
<1>2. (65536 * x) \div 262144 = x \div 4
  BY <1>1, SMT
<1>3. /\ (65536 * x + 256 * y) \div 262144 = x \div 4
      /\ ((65536 * x + 256 * y) \div 4096) % 64 = 16 * (x % 4) + (y \div 16)
  BY <1>1, SMT
<1>4. /\ (65536 * x + 256 * y + z) \div 262144 = x \div 4
      /\ ((65536 * x + 256 * y + z) \div 4096) % 64 = 16 * (x % 4) + (y \div 16)
  BY <1>1, SMT
<1>5. /\ OfThree(x, 0, 0) = 65536 * x /\ OfThree(x, y, 0) = 65536 * x + 256 * y
      /\ OfThree(x, y, z) = 65536 * x + 256 * y + z
  BY <1>1, SMT DEF OfThree
<1>6. \A n : AsSextets(n)[1] = n \div 262144 /\ AsSextets(n)[2] = (n \div 4096) % 64
  BY Parts, SMT
<1>7. /\ AsSextets(OfThree(x, 0, 0))[1] = x \div 4
      /\ AsSextets(OfThree(x, y, 0))[1] = x \div 4
      /\ AsSextets(OfThree(x, y, z))[1] = x \div 4
  BY <1>2, <1>3, <1>4, <1>5, <1>6, SMT
<1>8. /\ AsSextets(OfThree(x, y, 0))[2] = 16 * (x % 4) + (y \div 16)
      /\ AsSextets(OfThree(x, y, z))[2] = 16 * (x % 4) + (y \div 16)
  BY <1>3, <1>4, <1>5, <1>6, SMT
<1> QED
  BY <1>7, <1>8, SMT

\* Indexing an array, and beyond its end.
LEMMA Elements ==
  ASSUME NEW X, NEW s \in Seq(X)
  PROVE  /\ Len(s) \in Nat /\ \A i \in 1 .. Len(s) : s[i] \in X
         /\ 0 \in X => \A i \in Nat : i >= 1 => At0(s, i) \in X
         /\ \A i \in 1 .. Len(s) : At0(s, i) = s[i]
         /\ \A i \in Nat : i > Len(s) => At0(s, i) = 0
  BY DEF At0

\* The groups of an array of bytes, and of one of sextets.
LEMMA ByteGroup ==
  ASSUME NEW s \in Seq(Octets), NEW g \in Nat, NEW n, n = BitsOfBytes(s, 3 * g + 1)
  PROVE  /\ At0(s, 3 * g + 1) \in Octets /\ At0(s, 3 * g + 2) \in Octets
         /\ At0(s, 3 * g + 3) \in Octets
         /\ n = OfThree(At0(s, 3 * g + 1), At0(s, 3 * g + 2), At0(s, 3 * g + 3))
         /\ Fits(n)
         /\ AsBytes(n)[1] = At0(s, 3 * g + 1) /\ AsBytes(n)[2] = At0(s, 3 * g + 2)
         /\ AsBytes(n)[3] = At0(s, 3 * g + 3)
         /\ Len(s) = 3 * g + 2 => AsSextets(n)[4] = 0
         /\ Len(s) = 3 * g + 1 => AsSextets(n)[3] = 0 /\ AsSextets(n)[4] = 0
<1>1. 0 \in Octets
  BY SMT DEF Octets
<1>2. /\ 3 * g + 1 \in Nat /\ 3 * g + 2 \in Nat /\ 3 * g + 3 \in Nat
      /\ 3 * g + 1 >= 1 /\ 3 * g + 2 >= 1 /\ 3 * g + 3 >= 1
      /\ (3 * g + 1) + 1 = 3 * g + 2 /\ (3 * g + 1) + 2 = 3 * g + 3
  BY SMT
<1>3. \A i \in Nat : i >= 1 => At0(s, i) \in Octets
  BY <1>1, Elements
<1>4. /\ At0(s, 3 * g + 1) \in Octets /\ At0(s, 3 * g + 2) \in Octets
      /\ At0(s, 3 * g + 3) \in Octets
  BY <1>2, <1>3
<1>5. n = OfThree(At0(s, 3 * g + 1), At0(s, 3 * g + 2), At0(s, 3 * g + 3))
  BY <1>2, SMT DEF BitsOfBytes, OfThree
<1>6. \A i \in Nat : i > Len(s) => At0(s, i) = 0
  BY Elements
<1>7. /\ Len(s) = 3 * g + 2 => At0(s, 3 * g + 3) = 0
      /\ Len(s) = 3 * g + 1 => At0(s, 3 * g + 2) = 0 /\ At0(s, 3 * g + 3) = 0
  BY <1>2, <1>6, SMT
<1>8. PICK a \in Octets, b \in Octets, c \in Octets :
        a = At0(s, 3 * g + 1) /\ b = At0(s, 3 * g + 2) /\ c = At0(s, 3 * g + 3)
  BY <1>4
<1>9. /\ Fits(n) /\ AsBytes(n)[1] = a /\ AsBytes(n)[2] = b /\ AsBytes(n)[3] = c
      /\ c = 0 => AsSextets(n)[4] = 0
      /\ b = 0 /\ c = 0 => AsSextets(n)[3] = 0
  BY <1>5, <1>8, BitsOfThree
<1> QED
  BY <1>4, <1>5, <1>7, <1>8, <1>9

LEMMA SextetGroup ==
  ASSUME NEW t \in Seq(Sextets), NEW g \in Nat, NEW n, n = BitsOfSextets(t, 4 * g + 1)
  PROVE  /\ n = OfFour(At0(t, 4 * g + 1), At0(t, 4 * g + 2), At0(t, 4 * g + 3), At0(t, 4 * g + 4))
         /\ Fits(n)
         /\ AsSextets(n)[1] = At0(t, 4 * g + 1) /\ AsSextets(n)[2] = At0(t, 4 * g + 2)
         /\ AsSextets(n)[3] = At0(t, 4 * g + 3) /\ AsSextets(n)[4] = At0(t, 4 * g + 4)
<1>1. 0 \in Sextets
  BY SMT DEF Sextets
<1>2. /\ 4 * g + 1 \in Nat /\ 4 * g + 2 \in Nat /\ 4 * g + 3 \in Nat /\ 4 * g + 4 \in Nat
      /\ 4 * g + 1 >= 1 /\ 4 * g + 2 >= 1 /\ 4 * g + 3 >= 1 /\ 4 * g + 4 >= 1
      /\ (4 * g + 1) + 1 = 4 * g + 2 /\ (4 * g + 1) + 2 = 4 * g + 3
      /\ (4 * g + 1) + 3 = 4 * g + 4
  BY SMT
<1>3. \A i \in Nat : i >= 1 => At0(t, i) \in Sextets
  BY <1>1, Elements
<1>4. /\ At0(t, 4 * g + 1) \in Sextets /\ At0(t, 4 * g + 2) \in Sextets
      /\ At0(t, 4 * g + 3) \in Sextets /\ At0(t, 4 * g + 4) \in Sextets
  BY <1>2, <1>3
<1>5. n = OfFour(At0(t, 4 * g + 1), At0(t, 4 * g + 2), At0(t, 4 * g + 3), At0(t, 4 * g + 4))
  BY <1>2, SMT DEF BitsOfSextets, OfFour
<1> QED
  BY <1>4, <1>5, BitsOfFour

\* The sextets made of bytes, one by one, and the bytes made of sextets.
LEMMA SextetsMade ==
  ASSUME NEW s \in Seq(Octets), NEW t, t = ToSextets(s)
  PROVE  /\ t \in Seq(Sextets) /\ Len(t) = (4 * Len(s) + 2) \div 3
         /\ \A g \in Nat, j \in 1 .. 4 :
              4 * g + j <= Len(t) => t[4 * g + j] = AsSextets(BitsOfBytes(s, 3 * g + 1))[j]
<1>1. PICK n \in Nat : n = (4 * Len(s) + 2) \div 3
  BY SextetsNeeded, Elements
<1> DEFINE sextet(g, j) == AsSextets(BitsOfBytes(s, 3 * g + 1))[j]
<1>2. \A g \in Nat, j \in 1 .. 4 : sextet(g, j) \in Sextets
  <2> SUFFICES ASSUME NEW g \in Nat, NEW j \in 1 .. 4 PROVE sextet(g, j) \in Sextets
    OBVIOUS
  <2>1. PICK b : b = BitsOfBytes(s, 3 * g + 1)
    OBVIOUS
  <2>2. /\ AsSextets(b)[1] \in Sextets /\ AsSextets(b)[2] \in Sextets
        /\ AsSextets(b)[3] \in Sextets /\ AsSextets(b)[4] \in Sextets
    BY <2>1, ByteGroup, SextetsOfBits
  <2>3. j = 1 \/ j = 2 \/ j = 3 \/ j = 4
    OBVIOUS
  <2> QED
    BY <2>1, <2>2, <2>3
<1>3. t = [i \in 1 .. n |-> sextet((i - 1) \div 4, ((i - 1) % 4) + 1)]
  BY <1>1 DEF ToSextets
<1> HIDE DEF sextet
<1>4. \A i \in 1 .. n : sextet((i - 1) \div 4, ((i - 1) % 4) + 1) \in Sextets
  BY <1>2, Groups
<1>5. t \in Seq(Sextets) /\ Len(t) = n
  BY <1>3, <1>4
<1>6. ASSUME NEW g \in Nat, NEW j \in 1 .. 4, 4 * g + j <= Len(t)
      PROVE  t[4 * g + j] = sextet(g, j)
  <2>1. 4 * g + j \in 1 .. n
    BY <1>5, <1>6
  <2>2. t[4 * g + j] = sextet(((4 * g + j) - 1) \div 4, (((4 * g + j) - 1) % 4) + 1)
    BY <1>3, <2>1
  <2> QED
    BY <2>2, InGroup
<1> QED
  BY <1>1, <1>5, <1>6 DEF sextet

LEMMA BytesMadeOf ==
  ASSUME NEW t \in Seq(Sextets), NEW s, s = ToBytes(t)
  PROVE  /\ s \in Seq(Octets) /\ Len(s) = (3 * Len(t)) \div 4
         /\ \A g \in Nat, j \in 1 .. 3 :
              3 * g + j <= Len(s) => s[3 * g + j] = AsBytes(BitsOfSextets(t, 4 * g + 1))[j]
<1>0. Len(t) \in Nat
  BY Elements
<1>1. PICK n \in Nat : n = (3 * Len(t)) \div 4
  BY <1>0, SMT
<1> DEFINE byte(g, j) == AsBytes(BitsOfSextets(t, 4 * g + 1))[j]
<1>2. \A g \in Nat, j \in 1 .. 3 : byte(g, j) \in Octets
  <2> SUFFICES ASSUME NEW g \in Nat, NEW j \in 1 .. 3 PROVE byte(g, j) \in Octets
    OBVIOUS
  <2>1. PICK b : b = BitsOfSextets(t, 4 * g + 1)
    OBVIOUS
  <2>2. AsBytes(b)[1] \in Octets /\ AsBytes(b)[2] \in Octets /\ AsBytes(b)[3] \in Octets
    BY <2>1, SextetGroup, BytesOfBits
  <2>3. j = 1 \/ j = 2 \/ j = 3
    OBVIOUS
  <2> QED
    BY <2>1, <2>2, <2>3
<1>3. s = [i \in 1 .. n |-> byte((i - 1) \div 3, ((i - 1) % 3) + 1)]
  BY <1>1 DEF ToBytes
<1> HIDE DEF byte
<1>4. \A i \in 1 .. n : byte((i - 1) \div 3, ((i - 1) % 3) + 1) \in Octets
  BY <1>2, Groups
<1>5. s \in Seq(Octets) /\ Len(s) = n
  BY <1>3, <1>4
<1>6. ASSUME NEW g \in Nat, NEW j \in 1 .. 3, 3 * g + j <= Len(s)
      PROVE  s[3 * g + j] = byte(g, j)
  <2>1. 3 * g + j \in 1 .. n
    BY <1>5, <1>6
  <2>2. s[3 * g + j] = byte(((3 * g + j) - 1) \div 3, (((3 * g + j) - 1) % 3) + 1)
    BY <1>3, <2>1
  <2> QED
    BY <2>2, InGroup
<1> QED
  BY <1>1, <1>5, <1>6 DEF byte

\* Octets come back from their sextets: of each group that has a byte, also of the
\* last one, the sextets that were not made are 0.
LEMMA BytesReturn ==
  ASSUME NEW s \in Seq(Octets)
  PROVE  ToBytes(ToSextets(s)) = s
<1>1. PICK t : t = ToSextets(s)
  OBVIOUS
<1>2. PICK r : r = ToBytes(t)
  OBVIOUS
<1>3. /\ t \in Seq(Sextets) /\ Len(t) = (4 * Len(s) + 2) \div 3
      /\ \A g \in Nat, j \in 1 .. 4 :
           4 * g + j <= Len(t) => t[4 * g + j] = AsSextets(BitsOfBytes(s, 3 * g + 1))[j]
  BY <1>1, SextetsMade
<1>4. /\ r \in Seq(Octets) /\ Len(r) = (3 * Len(t)) \div 4
      /\ \A g \in Nat, j \in 1 .. 3 :
           3 * g + j <= Len(r) => r[3 * g + j] = AsBytes(BitsOfSextets(t, 4 * g + 1))[j]
  BY <1>2, <1>3, BytesMadeOf
<1>5. /\ Len(s) \in Nat /\ Len(t) \in Nat /\ Len(r) = Len(s)
      /\ \A g \in Nat :
           /\ Len(s) >= 3 * g + 3 => Len(t) >= 4 * g + 4
           /\ Len(s) = 3 * g + 2 => Len(t) = 4 * g + 3
           /\ Len(s) = 3 * g + 1 => Len(t) = 4 * g + 2
  <2>1. Len(s) \in Nat /\ Len(t) \in Nat
    BY <1>3, Elements
  <2> QED
    BY <1>3, <1>4, <2>1, SextetsNeeded
<1>6. ASSUME NEW g \in Nat, 3 * g + 1 <= Len(s)
      PROVE  BitsOfSextets(t, 4 * g + 1) = BitsOfBytes(s, 3 * g + 1)
  <2>1. PICK n : n = BitsOfBytes(s, 3 * g + 1)
    OBVIOUS
  <2>2. /\ Fits(n)
        /\ Len(s) = 3 * g + 2 => AsSextets(n)[4] = 0
        /\ Len(s) = 3 * g + 1 => AsSextets(n)[3] = 0 /\ AsSextets(n)[4] = 0
    BY <2>1, ByteGroup
  <2>3. \A j \in 1 .. 4 : 4 * g + j <= Len(t) => At0(t, 4 * g + j) = AsSextets(n)[j]
    <3> SUFFICES ASSUME NEW j \in 1 .. 4, 4 * g + j <= Len(t)
                 PROVE  At0(t, 4 * g + j) = AsSextets(n)[j]
      OBVIOUS
    <3>1. 4 * g + j \in 1 .. Len(t)
      BY <1>5
    <3> QED
      BY <1>3, <2>1, <3>1, Elements
  <2>4. \A j \in 1 .. 4 : 4 * g + j > Len(t) => At0(t, 4 * g + j) = 0
    BY <1>3, Elements
  <2>5. \/ Len(s) >= 3 * g + 3 /\ Len(t) >= 4 * g + 4
        \/ Len(s) = 3 * g + 2 /\ Len(t) = 4 * g + 3
        \/ Len(s) = 3 * g + 1 /\ Len(t) = 4 * g + 2
    BY <1>5, <1>6
  <2>6. /\ At0(t, 4 * g + 1) = AsSextets(n)[1] /\ At0(t, 4 * g + 2) = AsSextets(n)[2]
        /\ At0(t, 4 * g + 3) = AsSextets(n)[3] /\ At0(t, 4 * g + 4) = AsSextets(n)[4]
    <3>1. CASE Len(s) >= 3 * g + 3 /\ Len(t) >= 4 * g + 4
      BY <1>5, <2>3, <3>1
    <3>2. CASE Len(s) = 3 * g + 2 /\ Len(t) = 4 * g + 3
      BY <1>5, <2>2, <2>3, <2>4, <3>2
    <3>3. CASE Len(s) = 3 * g + 1 /\ Len(t) = 4 * g + 2
      BY <1>5, <2>2, <2>3, <2>4, <3>3
    <3> QED
      BY <2>5, <3>1, <3>2, <3>3
  <2>7. n = OfFour(AsSextets(n)[1], AsSextets(n)[2], AsSextets(n)[3], AsSextets(n)[4])
    BY <2>2, SextetsOfBits
  <2>8. BitsOfSextets(t, 4 * g + 1)
          = OfFour(At0(t, 4 * g + 1), At0(t, 4 * g + 2), At0(t, 4 * g + 3), At0(t, 4 * g + 4))
    BY <1>3, SextetGroup
  <2> QED
    BY <2>1, <2>6, <2>7, <2>8
<1>7. ASSUME NEW i \in 1 .. Len(s)
      PROVE  r[i] = s[i]
  <2>1. PICK g \in Nat, j \in 1 .. 3 : i = 3 * g + j
    <3>1. i \in Nat /\ i >= 1
      BY <1>5
    <3>2. /\ (i - 1) \div 3 \in Nat /\ ((i - 1) % 3) + 1 \in 1 .. 3
          /\ i = 3 * ((i - 1) \div 3) + ((i - 1) % 3) + 1
      BY <3>1, Groups
    <3>3. i = 3 * ((i - 1) \div 3) + (((i - 1) % 3) + 1)
      BY <3>1, <3>2, SMT
    <3> QED
      BY <3>2, <3>3
  <2>2. 3 * g + 1 <= Len(s) /\ 3 * g + j <= Len(r)
    BY <1>5, <2>1
  <2>3. PICK n : n = BitsOfBytes(s, 3 * g + 1)
    OBVIOUS
  <2>4. r[i] = AsBytes(n)[j]
    BY <1>4, <1>6, <2>1, <2>2, <2>3
  <2>5. /\ AsBytes(n)[1] = At0(s, 3 * g + 1) /\ AsBytes(n)[2] = At0(s, 3 * g + 2)
        /\ AsBytes(n)[3] = At0(s, 3 * g + 3)
    BY <2>3, ByteGroup
  <2>6. j = 1 \/ j = 2 \/ j = 3
    OBVIOUS
  <2>7. AsBytes(n)[j] = At0(s, 3 * g + j)
    BY <2>5, <2>6
  <2> QED
    BY <2>1, <2>4, <2>7, Elements
<1>8. r \in Seq(Octets) /\ s \in Seq(Octets) /\ Len(r) = Len(s)
  BY <1>4, <1>5
<1> QED
  BY <1>1, <1>2, <1>7, <1>8, SeqEqual

\* Sextets come back from the bytes they make, but for the bits that the last one
\* has to spare.
LEMMA SextetsReturn ==
  ASSUME NEW t \in Seq(Sextets), Len(t) % 4 # 1, NEW u, u = ToSextets(ToBytes(t))
  PROVE  /\ ToBytes(t) \in Seq(Octets) /\ u \in Seq(Sextets)
         /\ Len(u) = Len(t) /\ \A i \in 1 .. Len(t) - 1 : u[i] = t[i]
<1>1. PICK s : s = ToBytes(t)
  OBVIOUS
<1>2. /\ s \in Seq(Octets) /\ Len(s) = (3 * Len(t)) \div 4
      /\ \A g \in Nat, j \in 1 .. 3 :
           3 * g + j <= Len(s) => s[3 * g + j] = AsBytes(BitsOfSextets(t, 4 * g + 1))[j]
  BY <1>1, BytesMadeOf
<1>3. /\ u \in Seq(Sextets) /\ Len(u) = (4 * Len(s) + 2) \div 3
      /\ \A g \in Nat, j \in 1 .. 4 :
           4 * g + j <= Len(u) => u[4 * g + j] = AsSextets(BitsOfBytes(s, 3 * g + 1))[j]
  BY <1>1, <1>2, SextetsMade
<1>4. /\ Len(s) \in Nat /\ Len(t) \in Nat /\ Len(u) = Len(t)
      /\ \A g \in Nat :
           /\ Len(t) >= 4 * g + 4 => Len(s) >= 3 * g + 3
           /\ Len(t) = 4 * g + 3 => Len(s) = 3 * g + 2
           /\ Len(t) = 4 * g + 2 => Len(s) = 3 * g + 1
           /\ Len(t) # 4 * g + 1
  <2>1. Len(s) \in Nat /\ Len(t) \in Nat
    BY <1>2, Elements
  <2>2. PICK l \in Nat : l = Len(t) /\ l % 4 # 1
    BY <2>1
  <2>3. /\ (4 * ((3 * l) \div 4) + 2) \div 3 = l
        /\ \A g \in Nat :
             /\ l >= 4 * g + 4 => (3 * l) \div 4 >= 3 * g + 3
             /\ l = 4 * g + 3 => (3 * l) \div 4 = 3 * g + 2
             /\ l = 4 * g + 2 => (3 * l) \div 4 = 3 * g + 1
             /\ l # 4 * g + 1
    BY <2>2, BytesMade
  <2> QED
    BY <1>2, <1>3, <2>1, <2>2, <2>3
<1>5. ASSUME NEW g \in Nat, NEW j \in 1 .. 4, 4 * g + j < Len(t)
      PROVE  AsSextets(BitsOfBytes(s, 3 * g + 1))[j] = At0(t, 4 * g + j)
  <2>1. PICK n : n = BitsOfSextets(t, 4 * g + 1)
    OBVIOUS
  <2>2. /\ Fits(n)
        /\ AsSextets(n)[1] = At0(t, 4 * g + 1) /\ AsSextets(n)[2] = At0(t, 4 * g + 2)
        /\ AsSextets(n)[3] = At0(t, 4 * g + 3) /\ AsSextets(n)[4] = At0(t, 4 * g + 4)
    BY <2>1, SextetGroup
  <2>3. PICK x \in Octets, y \in Octets, z \in Octets :
          /\ x = AsBytes(n)[1] /\ y = AsBytes(n)[2] /\ z = AsBytes(n)[3]
          /\ n = OfThree(x, y, z)
    BY <2>2, BytesOfBits
  <2>4. \A k \in 1 .. 3 : 3 * g + k <= Len(s) => At0(s, 3 * g + k) = AsBytes(n)[k]
    <3> SUFFICES ASSUME NEW k \in 1 .. 3, 3 * g + k <= Len(s)
                 PROVE  At0(s, 3 * g + k) = AsBytes(n)[k]
      OBVIOUS
    <3>1. 3 * g + k \in 1 .. Len(s)
      BY <1>4
    <3> QED
      BY <1>2, <2>1, <3>1, Elements
  <2>5. \A k \in 1 .. 3 : 3 * g + k > Len(s) => At0(s, 3 * g + k) = 0
    BY <1>2, Elements
  <2>6. BitsOfBytes(s, 3 * g + 1)
          = OfThree(At0(s, 3 * g + 1), At0(s, 3 * g + 2), At0(s, 3 * g + 3))
    BY <1>2, ByteGroup
  <2>7. \/ Len(t) >= 4 * g + 4 /\ Len(s) >= 3 * g + 3
        \/ Len(t) = 4 * g + 3 /\ Len(s) = 3 * g + 2 /\ j \in {1, 2}
        \/ Len(t) = 4 * g + 2 /\ Len(s) = 3 * g + 1 /\ j = 1
    BY <1>4, <1>5
  <2>8. AsSextets(BitsOfBytes(s, 3 * g + 1))[j] = AsSextets(n)[j]
    <3>1. CASE Len(t) >= 4 * g + 4 /\ Len(s) >= 3 * g + 3
      <4>1. At0(s, 3 * g + 1) = x /\ At0(s, 3 * g + 2) = y /\ At0(s, 3 * g + 3) = z
        BY <1>4, <2>3, <2>4, <3>1
      <4> QED
        BY <2>3, <2>6, <4>1
    <3>2. CASE Len(t) = 4 * g + 3 /\ Len(s) = 3 * g + 2 /\ j \in {1, 2}
      <4>1. At0(s, 3 * g + 1) = x /\ At0(s, 3 * g + 2) = y /\ At0(s, 3 * g + 3) = 0
        BY <1>4, <2>3, <2>4, <2>5, <3>2
      <4> QED
        BY <2>3, <2>6, <3>2, <4>1, FirstSextets
    <3>3. CASE Len(t) = 4 * g + 2 /\ Len(s) = 3 * g + 1 /\ j = 1
      <4>1. At0(s, 3 * g + 1) = x /\ At0(s, 3 * g + 2) = 0 /\ At0(s, 3 * g + 3) = 0
        BY <1>4, <2>3, <2>4, <2>5, <3>3
      <4> QED
        BY <2>3, <2>6, <3>3, <4>1, FirstSextets
    <3> QED
      BY <2>7, <3>1, <3>2, <3>3
  <2>9. j = 1 \/ j = 2 \/ j = 3 \/ j = 4
    OBVIOUS
  <2> QED
    BY <2>2, <2>8, <2>9
<1>6. ASSUME NEW i \in 1 .. Len(t) - 1
      PROVE  u[i] = t[i]
  <2>1. PICK g \in Nat, j \in 1 .. 4 : i = 4 * g + j
    <3>1. i \in Nat /\ i >= 1
      BY <1>4
    <3>2. /\ (i - 1) \div 4 \in Nat /\ ((i - 1) % 4) + 1 \in 1 .. 4
          /\ i = 4 * ((i - 1) \div 4) + ((i - 1) % 4) + 1
      BY <3>1, Groups
    <3>3. i = 4 * ((i - 1) \div 4) + (((i - 1) % 4) + 1)
      BY <3>1, <3>2, SMT
    <3> QED
      BY <3>2, <3>3
  <2>2. 4 * g + j < Len(t) /\ 4 * g + j <= Len(u) /\ i \in 1 .. Len(t)
    BY <1>4, <2>1
  <2>3. u[i] = At0(t, i)
    BY <1>3, <1>5, <2>1, <2>2
  <2> QED
    BY <2>2, <2>3, Elements
<1> QED
  BY <1>1, <1>2, <1>3, <1>4, <1>6

-----------------------------------------------------------------------------
(* btoa and what atob strips.                                              *)

Paddings(n) == [i \in 1 .. (4 - (n % 4)) % 4 |-> Padding]

\* How many characters pad n sextets.
LEMMA PaddingsAre ==
  ASSUME NEW n \in Nat, n % 4 # 1
  PROVE  /\ Paddings(n) \in Seq({Padding})
         /\ \/ n % 4 = 0 /\ Paddings(n) = <<>>
            \/ n % 4 = 2 /\ Len(Paddings(n)) = 2 /\ (n + 2) % 4 = 0
            \/ n % 4 = 3 /\ Len(Paddings(n)) = 1 /\ (n + 1) % 4 = 0
<1>1. PICK k \in Nat : k = (4 - (n % 4)) % 4
  BY SMT
<1>2. \/ n % 4 = 0 /\ k = 0
      \/ n % 4 = 2 /\ k = 2 /\ (n + 2) % 4 = 0
      \/ n % 4 = 3 /\ k = 1 /\ (n + 1) % 4 = 0
  BY <1>1, SMT
<1>3. PICK p : p = Paddings(n)
  OBVIOUS
<1>4. p = [i \in 1 .. k |-> Padding]
  BY <1>1, <1>3 DEF Paddings
<1>5. p \in Seq({Padding}) /\ Len(p) = k
  BY <1>4
<1>6. k = 0 => p = <<>>
  BY <1>5
<1> QED
  BY <1>2, <1>3, <1>5, <1>6

\* btoa pads the sextets of bytes, and refuses other strings.
LEMMA BtoaIs ==
  ASSUME NEW s \in Seq(Nat)
  PROVE  /\ s \in Seq(Octets) => Btoa(s) = ToSextets(s) \o Paddings(Len(ToSextets(s)))
         /\ s \notin Seq(Octets) => Btoa(s) = None
<1>1. Len(s) \in Nat /\ DOMAIN s = 1 .. Len(s) /\ \A i \in 1 .. Len(s) : s[i] \in Nat
  OBVIOUS
<1>2. ASSUME s \in Seq(Octets)
      PROVE  Btoa(s) = ToSextets(s) \o Paddings(Len(ToSextets(s)))
  <2>1. \A i \in DOMAIN s : s[i] \in Octets
    BY <1>1, <1>2, Elements
  <2>2. \A b \in Octets : ~ (b > 255)
    BY SMT DEF Octets
  <2> QED
    BY <2>1, <2>2 DEF Btoa, Paddings
<1>3. ASSUME ~ \E i \in DOMAIN s : s[i] > 255
      PROVE  s \in Seq(Octets)
  <2>1. \A b \in Nat : ~ (b > 255) => b \in Octets
    BY SMT DEF Octets
  <2>2. \A i \in 1 .. Len(s) : s[i] \in Octets
    BY <1>1, <1>3, <2>1
  <2> QED
    BY <1>1, <2>2
<1> QED
  BY <1>2, <1>3 DEF Btoa

\* What padding goes.
LEMMA UnpaddedIs ==
  ASSUME NEW X, NEW r \in Seq(X)
  PROVE  \E p \in 0 .. 2 :
           /\ p <= Len(r) /\ Unpadded(r) = SubSeq(r, 1, Len(r) - p)
           /\ p # 0 => Len(r) % 4 = 0
           /\ \A i \in Len(r) - p + 1 .. Len(r) : r[i] = Padding
<1>1. Len(r) \in Nat
  OBVIOUS
<1>2. CASE Len(r) % 4 # 0 \/ r = <<>> \/ r[Len(r)] # Padding
  <2>1. Unpadded(r) = SubSeq(r, 1, Len(r) - 0)
    BY <1>2 DEF Unpadded, Last
  <2> WITNESS 0 \in 0 .. 2
  <2> QED
    BY <1>1, <2>1
<1>3. CASE ~ (Len(r) % 4 # 0 \/ r = <<>> \/ r[Len(r)] # Padding) /\ r[Len(r) - 1] = Padding
  <2>1. Unpadded(r) = SubSeq(r, 1, Len(r) - 2)
    BY <1>3 DEF Unpadded, Last
  <2>2. Len(r) >= 2
    BY <1>1, <1>3
  <2>3. \A i \in Len(r) - 2 + 1 .. Len(r) : i = Len(r) \/ i = Len(r) - 1
    BY <1>1
  <2> WITNESS 2 \in 0 .. 2
  <2> QED
    BY <1>1, <1>3, <2>1, <2>2, <2>3
<1>4. CASE ~ (Len(r) % 4 # 0 \/ r = <<>> \/ r[Len(r)] # Padding) /\ r[Len(r) - 1] # Padding
  <2>1. Unpadded(r) = SubSeq(r, 1, Len(r) - 1)
    BY <1>4 DEF Unpadded, Last
  <2>2. Len(r) >= 1
    BY <1>1, <1>4
  <2>3. \A i \in Len(r) - 1 + 1 .. Len(r) : i = Len(r)
    BY <1>1
  <2> WITNESS 1 \in 0 .. 2
  <2> QED
    BY <1>1, <1>4, <2>1, <2>2, <2>3
<1> QED
  BY <1>2, <1>3, <1>4

\* Of sextets with their padding or without it only the sextets are left.
LEMMA UnpaddedPadded ==
  ASSUME NEW d \in Seq(Sextets), Len(d) % 4 # 1
  PROVE  Unpadded(d) = d /\ Unpadded(d \o Paddings(Len(d))) = d
<1>1. /\ Len(d) \in Nat /\ \A i \in 1 .. Len(d) : d[i] \in Sextets
      /\ d # <<>> => Len(d) \in 1 .. Len(d)
  OBVIOUS
<1>2. \A x \in Sextets : x # Padding
  BY SMT DEF Sextets, Padding
<1>3. SubSeq(d, 1, Len(d)) = d /\ d \o <<>> = d
  OBVIOUS
<1>4. Unpadded(d) = d
  <2>1. d = <<>> \/ d[Len(d)] # Padding
    BY <1>1, <1>2
  <2>2. Unpadded(d) = SubSeq(d, 1, Len(d) - 0)
    BY <2>1 DEF Unpadded, Last
  <2> QED
    BY <1>1, <1>3, <2>2
<1>5. PICK p \in Seq({Padding}) : p = Paddings(Len(d))
  BY <1>1, PaddingsAre
<1>6. PICK r : r = d \o p
  OBVIOUS
<1>7. SubSeq(r, 1, Len(d)) = d
  BY <1>1, <1>5, <1>6
<1>8. /\ Len(r) = Len(d) + Len(p)
      /\ \A i \in 1 .. Len(d) : r[i] = d[i]
      /\ \A i \in 1 .. Len(p) : r[Len(d) + i] = Padding
  BY <1>1, <1>5, <1>6
<1>9. CASE Len(d) % 4 = 0 /\ p = <<>>
  BY <1>3, <1>4, <1>5, <1>9
<1>10. CASE Len(p) = 2 /\ (Len(d) + 2) % 4 = 0
  <2>1. Len(r) % 4 = 0 /\ Len(r) = Len(d) + 2 /\ r # <<>> /\ Len(r) - 2 = Len(d)
    BY <1>1, <1>8, <1>10
  <2>2. r[Len(r)] = Padding /\ r[Len(r) - 1] = Padding
    BY <1>1, <1>8, <1>10, <2>1
  <2>3. Unpadded(r) = SubSeq(r, 1, Len(r) - 2)
    BY <2>1, <2>2 DEF Unpadded, Last
  <2> QED
    BY <1>4, <1>5, <1>6, <1>7, <2>1, <2>3
<1>11. CASE Len(p) = 1 /\ (Len(d) + 1) % 4 = 0
  <2>1. Len(r) % 4 = 0 /\ Len(r) = Len(d) + 1 /\ r # <<>> /\ Len(r) - 1 = Len(d) /\ Len(d) >= 1
    BY <1>1, <1>8, <1>11
  <2>2. r[Len(r)] = Padding /\ r[Len(r) - 1] # Padding
    BY <1>1, <1>2, <1>8, <1>11, <2>1
  <2>3. Unpadded(r) = SubSeq(r, 1, Len(r) - 1)
    BY <2>1, <2>2 DEF Unpadded, Last
  <2> QED
    BY <1>4, <1>5, <1>6, <1>7, <2>1, <2>3
<1> QED
  BY <1>1, <1>5, <1>9, <1>10, <1>11, PaddingsAre

\* What is no space in a text of btoa, and what is neither that nor padding.
LEMMA BtoaFiltered ==
  ASSUME NEW s \in Seq(Octets), NEW d, d = ToSextets(s), NEW c, c = d \o Paddings(Len(d))
  PROVE  /\ d \in Seq(Sextets) /\ Len(d) % 4 # 1 /\ c \in Seq(Characters)
         /\ Unspaced(c) = c /\ Unspaced(d) = d
         /\ Filtered(c, Characters \ {Padding}) = d
         /\ Filtered(d, Characters \ {Padding}) = d
<1>1. d \in Seq(Sextets) /\ Len(d) \in Nat /\ Len(d) % 4 # 1
  <2>1. d \in Seq(Sextets) /\ Len(d) = (4 * Len(s) + 2) \div 3
    BY SextetsMade
  <2>2. Len(s) \in Nat
    BY Elements
  <2> QED
    BY <2>1, <2>2, SextetsNeeded
<1>2. PICK p \in Seq({Padding}) : p = Paddings(Len(d))
  BY <1>1, PaddingsAre
<1>3. /\ Sextets \subseteq Characters /\ {Padding} \subseteq Characters
      /\ Sextets \subseteq Characters \ {Space} /\ {Padding} \subseteq Characters \ {Space}
      /\ Sextets \subseteq Characters \ {Padding}
      /\ Padding \notin Characters \ {Padding}
  BY SMT DEF Sextets, Characters, Padding, Space
<1>4. d \in Seq(Characters) /\ p \in Seq(Characters) /\ c = d \o p
  BY <1>1, <1>2, <1>3, SeqWidens
<1>5. /\ \A i \in 1 .. Len(d) : d[i] \in Sextets
      /\ \A i \in 1 .. Len(p) : p[i] = Padding
  <2>1. \A i \in 1 .. Len(p) : p[i] \in {Padding}
    BY Elements
  <2> QED
    BY <1>1, <2>1, Elements
<1>6. /\ \A S : Sextets \subseteq S => Filtered(d, S) = d
      /\ Filtered(p, Characters \ {Space}) = p
      /\ Filtered(p, Characters \ {Padding}) = <<>>
  <2>1. ASSUME NEW S, Sextets \subseteq S PROVE Filtered(d, S) = d
    BY <1>4, <1>5, <2>1, FilteredWhole
  <2>2. /\ \A i \in 1 .. Len(p) : p[i] \in Characters \ {Space}
        /\ \A i \in 1 .. Len(p) : p[i] \notin Characters \ {Padding}
    BY <1>3, <1>5
  <2> QED
    BY <1>4, <2>1, <2>2, FilteredWhole
<1>7. \A S : Filtered(c, S) = Filtered(d, S) \o Filtered(p, S)
  <2>1. ASSUME NEW S PROVE Filtered(d \o p, S) = Filtered(d, S) \o Filtered(p, S)
    <3>1. d \in Seq(Characters) /\ p \in Seq(Characters)
      BY <1>4
    <3> QED
      BY ONLY <3>1, FilteredJoins
  <2> QED
    BY <1>4, <2>1
<1>8. d \o <<>> = d /\ d \o p \in Seq(Characters)
  BY <1>4
<1>9. Filtered(c, Characters \ {Space}) = c /\ Filtered(d, Characters \ {Space}) = d
  BY <1>3, <1>4, <1>6, <1>7
<1>10. /\ Filtered(c, Characters \ {Padding}) = d
       /\ Filtered(d, Characters \ {Padding}) = d
  BY <1>3, <1>6, <1>7, <1>8
<1> QED
  BY <1>1, <1>4, <1>8, <1>9, <1>10 DEF Unspaced

-----------------------------------------------------------------------------
(* The invariant: without spaces an undamaged text is what btoa made, with  *)
(* its padding or without it.                                              *)

Undamaged(c, d) == Unspaced(c) \in {d, d \o Paddings(Len(d))}

Base64Inv ==
  /\ data \in Seq(Nat)
  /\ data \notin Seq(Octets) => coded = None
  /\ data \in Seq(Octets) => coded \in Seq(Characters)
  /\ data \in Seq(Octets) /\ ~damaged => Undamaged(coded, ToSextets(data))

\* It holds to begin with, and every edit keeps it.
LEMMA Base64InitInv == Base64Init => Base64Inv
<1> SUFFICES ASSUME Base64Init PROVE Base64Inv
  OBVIOUS
<1>1. data \in Seq(Nat)
  <2>1. PICK m \in 0 .. MaxUnits : data \in [1 .. m -> Units]
    BY DEF Base64Init, BoundedSeq, SeqOf
  <2>2. m \in Nat /\ Units \subseteq Nat
    BY UnitsAssumption
  <2>3. data \in Seq(Units)
    BY <2>1, <2>2
  <2> QED
    BY <2>2, <2>3, SeqWidens
<1>2. coded = Btoa(data)
  BY DEF Base64Init
<1>3. data \notin Seq(Octets) => coded = None
  BY <1>1, <1>2, BtoaIs
<1>4. ASSUME data \in Seq(Octets)
      PROVE  coded \in Seq(Characters) /\ Undamaged(coded, ToSextets(data))
  <2>1. PICK d : d = ToSextets(data)
    OBVIOUS
  <2>2. coded = d \o Paddings(Len(d))
    BY <1>1, <1>2, <1>4, <2>1, BtoaIs
  <2>3. coded \in Seq(Characters) /\ Unspaced(coded) = coded
    BY <1>4, <2>1, <2>2, BtoaFiltered
  <2> QED
    BY <2>1, <2>2, <2>3 DEF Undamaged
<1> QED
  BY <1>1, <1>3, <1>4 DEF Base64Inv

\* A character more.
LEMMA Inserted ==
  ASSUME NEW c \in Seq(Characters), NEW i \in 1 .. Len(c) + 1, NEW x \in Characters
  PROVE  /\ InsertAt(c, i, x) \in Seq(Characters)
         /\ x = Space => Unspaced(InsertAt(c, i, x)) = Unspaced(c)
<1>1. PICK a : a = SubSeq(c, 1, i - 1)
  OBVIOUS
<1>2. PICK b : b = SubSeq(c, i, Len(c))
  OBVIOUS
<1>3. a \in Seq(Characters) /\ b \in Seq(Characters) /\ <<x>> \in Seq(Characters)
  BY <1>1, <1>2
<1>4. c = a \o b
  <2>1. /\ Len(a) = i - 1 /\ \A k \in 1 .. i - 1 : a[k] = c[k]
        /\ Len(b) = Len(c) - i + 1 /\ \A k \in 1 .. Len(c) - i + 1 : b[k] = c[i + k - 1]
    BY <1>1, <1>2
  <2>2. a \o b \in Seq(Characters) /\ Len(a \o b) = Len(c)
    BY <1>3, <2>1
  <2>3. \A k \in 1 .. Len(c) : (a \o b)[k] = IF k <= i - 1 THEN a[k] ELSE b[k - (i - 1)]
    BY <1>3, <2>1
  <2>4. ASSUME NEW k \in 1 .. Len(c) PROVE (a \o b)[k] = c[k]
    <3>0. k <= i - 1 \/ k > i - 1
      <4>1. i \in Int /\ k \in Int
        OBVIOUS
      <4> QED
        BY ONLY <4>1
    <3>1. CASE k <= i - 1
      BY <2>1, <2>3, <3>1
    <3>2. CASE k > i - 1
      <4>1. k - (i - 1) \in 1 .. Len(c) - i + 1 /\ i + (k - (i - 1)) - 1 = k
        BY <3>2
      <4> QED
        BY <2>1, <2>3, <3>2, <4>1
    <3> QED
      BY <3>0, <3>1, <3>2
  <2> QED
    BY <2>2, <2>4, SeqEqual
<1>5. InsertAt(c, i, x) = (a \o <<x>>) \o b
  BY <1>1, <1>2 DEF InsertAt
<1>6. a \o <<x>> \in Seq(Characters) /\ (a \o <<x>>) \o b \in Seq(Characters)
  BY <1>3, ConcatProperties
<1>7. ASSUME x = Space PROVE Unspaced((a \o <<x>>) \o b) = Unspaced(c)
  <2>1. /\ Unspaced((a \o <<x>>) \o b) = Unspaced(a \o <<x>>) \o Unspaced(b)
        /\ Unspaced(a \o <<x>>) = Unspaced(a) \o Unspaced(<<x>>)
        /\ Unspaced(a \o b) = Unspaced(a) \o Unspaced(b)
    <3>1. PICK y : y = <<x>>
      OBVIOUS
    <3>2. a \in Seq(Characters) /\ b \in Seq(Characters) /\ y \in Seq(Characters)
          /\ a \o y \in Seq(Characters)
      BY <1>3, <1>6, <3>1
    <3>3. \A S : /\ Filtered((a \o y) \o b, S) = Filtered(a \o y, S) \o Filtered(b, S)
                 /\ Filtered(a \o y, S) = Filtered(a, S) \o Filtered(y, S)
                 /\ Filtered(a \o b, S) = Filtered(a, S) \o Filtered(b, S)
      <4> SUFFICES ASSUME NEW S
                   PROVE  /\ Filtered((a \o y) \o b, S) = Filtered(a \o y, S) \o Filtered(b, S)
                          /\ Filtered(a \o y, S) = Filtered(a, S) \o Filtered(y, S)
                          /\ Filtered(a \o b, S) = Filtered(a, S) \o Filtered(b, S)
        OBVIOUS
      <4>1. Filtered((a \o y) \o b, S) = Filtered(a \o y, S) \o Filtered(b, S)
        <5>1. PICK z \in Seq(Characters) : z = a \o y
          BY <3>2
        <5>2. z \in Seq(Characters) /\ b \in Seq(Characters)
          BY <3>2
        <5>3. Filtered(z \o b, S) = Filtered(z, S) \o Filtered(b, S)
          BY ONLY <5>2, FilteredJoins
        <5> QED
          BY <5>1, <5>3
      <4>2. Filtered(a \o y, S) = Filtered(a, S) \o Filtered(y, S)
        BY ONLY <3>2, FilteredJoins
      <4>3. Filtered(a \o b, S) = Filtered(a, S) \o Filtered(b, S)
        BY ONLY <3>2, FilteredJoins
      <4> QED
        BY <4>1, <4>2, <4>3
    <3> QED
      BY <3>1, <3>3 DEF Unspaced
  <2>2. Unspaced(<<x>>) = <<>>
    <3>1. \A k \in 1 .. Len(<<x>>) : <<x>>[k] \notin Characters \ {Space}
      BY <1>7
    <3> QED
      BY <1>3, <3>1, FilteredWhole DEF Unspaced
  <2>3. Unspaced(a) \o <<>> = Unspaced(a)
    BY <1>3, FilteredPicks, ConcatEmptySeq DEF Unspaced
  <2> QED
    BY <1>4, <2>1, <2>2, <2>3
<1> QED
  BY <1>5, <1>6, <1>7

LEMMA Base64StepInv == Base64Inv /\ [Base64Next]_base64Vars => Base64Inv'
<1> SUFFICES ASSUME Base64Inv, [Base64Next]_base64Vars PROVE Base64Inv'
  OBVIOUS
<1>1. CASE UNCHANGED base64Vars
  BY <1>1 DEF Base64Inv, base64Vars
<1>2. ASSUME NEW new, Edit(new)
      PROVE  data' = data /\ coded' = new /\ data \in Seq(Octets) /\ coded \in Seq(Characters)
  BY <1>2 DEF Edit, Base64Inv
<1>3. ASSUME NEW i \in 1 .. Len(coded) + 1, Spread(i) PROVE Base64Inv'
  <2>1. Space \in Characters
    BY SMT DEF Space, Characters
  <2>2. /\ data' = data /\ coded' = InsertAt(coded, i, Space) /\ damaged' = damaged
        /\ data \in Seq(Octets) /\ coded \in Seq(Characters)
    BY <1>2, <1>3 DEF Spread
  <2>3. coded' \in Seq(Characters) /\ Unspaced(coded') = Unspaced(coded)
    BY <2>1, <2>2, Inserted
  <2> QED
    BY <2>2, <2>3 DEF Base64Inv, Undamaged
<1>4. ASSUME NEW i \in 1 .. Len(coded) + 1, NEW c \in {0, 17, Padding, Other}, Damage(i, c)
      PROVE  Base64Inv'
  <2>1. c \in Characters
    BY SMT DEF Padding, Other, Characters
  <2>2. /\ data' = data /\ coded' = InsertAt(coded, i, c) /\ damaged'
        /\ data \in Seq(Octets) /\ coded \in Seq(Characters)
    BY <1>2, <1>4 DEF Damage
  <2>3. coded' \in Seq(Characters)
    BY <2>1, <2>2, Inserted
  <2> QED
    BY <2>2, <2>3 DEF Base64Inv
<1>5. ASSUME LeaveOutPadding PROVE Base64Inv'
  <2>1. /\ data' = data /\ coded' = Filtered(coded, Characters \ {Padding})
        /\ damaged' = damaged
        /\ data \in Seq(Octets) /\ coded \in Seq(Characters)
    BY <1>2, <1>5 DEF LeaveOutPadding
  <2>2. coded' \in Seq(Characters)
    BY <2>1, FilteredPicks
  <2>3. ASSUME ~damaged PROVE Undamaged(coded', ToSextets(data))
    <3>1. PICK d : d = ToSextets(data)
      OBVIOUS
    <3>2. PICK p : p = d \o Paddings(Len(d))
      OBVIOUS
    <3>3. Filtered(p, Characters \ {Padding}) = d /\ Filtered(d, Characters \ {Padding}) = d
      BY <2>1, <3>1, <3>2, BtoaFiltered
    <3>4. Unspaced(coded) \in {d, p}
      BY <2>1, <2>3, <3>1, <3>2 DEF Base64Inv, Undamaged
    <3>5. /\ Unspaced(coded')
               = Filtered(coded, (Characters \ {Padding}) \cap (Characters \ {Space}))
          /\ Filtered(Unspaced(coded), Characters \ {Padding})
               = Filtered(coded, (Characters \ {Space}) \cap (Characters \ {Padding}))
      BY <2>1, FilteredTwice DEF Unspaced
    <3>6. (Characters \ {Padding}) \cap (Characters \ {Space})
            = (Characters \ {Space}) \cap (Characters \ {Padding})
      OBVIOUS
    <3>7. Unspaced(coded') = d
      BY <3>3, <3>4, <3>5, <3>6
    <3> QED
      BY <3>1, <3>7 DEF Undamaged
  <2> QED
    BY <2>1, <2>2, <2>3 DEF Base64Inv
<1> QED
  BY <1>1, <1>3, <1>4, <1>5 DEF Base64Next

LEMMA Base64Invariant == Base64Spec => []Base64Inv
BY Base64InitInv, Base64StepInv, PTL DEF Base64Spec

\* What btoa made of a string atob turns back into it, for every string, and also when
\* white space was put in or the padding left out on the way (base64.rs:5).
THEOREM AtobReturnsTheString == Base64Spec => []AtobUndoesBtoa
<1>1. Base64Inv => AtobUndoesBtoa
  <2> SUFFICES ASSUME Base64Inv, coded # None, ~damaged PROVE Atob(coded) = data
    BY DEF AtobUndoesBtoa
  <2>1. data \in Seq(Octets)
    BY DEF Base64Inv
  <2>2. PICK d : d = ToSextets(data)
    OBVIOUS
  <2>3. Unspaced(coded) \in {d, d \o Paddings(Len(d))}
    BY <2>1, <2>2 DEF Base64Inv, Undamaged
  <2>4. d \in Seq(Sextets) /\ Len(d) % 4 # 1
    BY <2>1, <2>2, BtoaFiltered
  <2>5. Stripped(coded) = d
    BY <2>3, <2>4, UnpaddedPadded DEF Stripped
  <2>6. ToSet(d) \subseteq Sextets
    <3>1. DOMAIN d = 1 .. Len(d) /\ \A i \in 1 .. Len(d) : d[i] \in Sextets
      BY <2>4
    <3> QED
      BY <3>1 DEF ToSet
  <2>7. Atob(coded) = ToBytes(d)
    BY <2>4, <2>5, <2>6 DEF Atob
  <2> QED
    BY <2>1, <2>2, <2>7, BytesReturn
<1> QED
  BY <1>1, Base64Invariant, PTL

\* What atob accepts, of all that edits can make of a text, is base64 of the string it
\* returns, up to the last character and the padding (base64.rs:19).
THEOREM AtobInventsNothing == Base64Spec => []AtobAcceptsBase64
<1>1. Base64Inv => AtobAcceptsBase64
  <2> SUFFICES ASSUME Base64Inv, coded # None, Atob(coded) # None
               PROVE  AtobAcceptsBase64
    BY DEF AtobAcceptsBase64
  <2>1. coded \in Seq(Characters)
    BY DEF Base64Inv
  <2>2. PICK r \in Seq(Characters) : r = Unspaced(coded)
    BY <2>1, FilteredPicks DEF Unspaced
  <2>3. PICK t : t = Unpadded(r)
    OBVIOUS
  <2>4. PICK p \in 0 .. 2 :
          /\ p <= Len(r) /\ t = SubSeq(r, 1, Len(r) - p)
          /\ p # 0 => Len(r) % 4 = 0
          /\ \A i \in Len(r) - p + 1 .. Len(r) : r[i] = Padding
    BY <2>3, UnpaddedIs
  <2>5. /\ Len(r) \in Nat /\ t \in Seq(Characters) /\ Len(t) = Len(r) - p
        /\ \A i \in 1 .. Len(t) : t[i] = r[i]
    BY <2>4
  <2>6. /\ Len(t) % 4 # 1 /\ ToSet(t) \subseteq Sextets
        /\ Atob(coded) = ToBytes(t)
    BY <2>2, <2>3 DEF Atob, Stripped
  <2>7. t \in Seq(Sextets)
    <3>1. \A i \in 1 .. Len(t) : t[i] \in Sextets
      BY <2>5, <2>6 DEF ToSet
    <3> QED
      BY <2>5, <3>1
  <2>8. PICK s \in Seq(Octets) : s = ToBytes(t)
    BY <2>6, <2>7, SextetsReturn
  <2>9. PICK u \in Seq(Sextets) : u = ToSextets(s)
    BY SextetsMade
  <2>10. Len(u) = Len(t) /\ \A i \in 1 .. Len(t) - 1 : u[i] = t[i]
    BY <2>6, <2>7, <2>8, <2>9, SextetsReturn
  <2>11. Stripped(Btoa(s)) = u
    <3>1. s \in Seq(Nat)
      <4>1. Octets \subseteq Nat
        BY SMT DEF Octets
      <4> QED
        BY <4>1, SeqWidens
    <3>2. PICK c : c = u \o Paddings(Len(u))
      OBVIOUS
    <3>3. Btoa(s) = c
      BY <2>9, <3>1, <3>2, BtoaIs
    <3>4. Unspaced(c) = c /\ Len(u) % 4 # 1
      BY <2>9, <3>2, BtoaFiltered
    <3> QED
      BY <3>2, <3>3, <3>4, UnpaddedPadded DEF Stripped
  <2>12. Len(u) \in Nat /\ Len(r) - Len(u) = p
    BY <2>5, <2>10
  <2>13. Len(u) = 0 \/ IsPrefix(Front(u), r)
    <3> SUFFICES ASSUME Len(u) # 0 PROVE IsPrefix(Front(u), r)
      OBVIOUS
    <3>1. PICK f : f = Front(u)
      OBVIOUS
    <3>2. /\ f \in Seq(Sextets) /\ Len(f) = Len(u) - 1
          /\ \A i \in 1 .. Len(f) : f[i] = u[i]
      <4>1. PICK n \in Nat : n = Len(u) - 1
        BY <2>12
      <4>2. f = SubSeq(u, 1, n) /\ n <= Len(u)
        BY <2>12, <3>1, <4>1 DEF Front
      <4> QED
        BY <2>12, <4>1, <4>2
    <3>3. Len(f) \in Nat /\ Len(f) <= Len(r) /\ \A i \in 1 .. Len(f) : f[i] = r[i]
      <4>1. Len(f) \in Nat /\ Len(f) <= Len(r) /\ Len(f) = Len(t) - 1
        BY <2>5, <2>10, <2>12, <3>2
      <4>2. ASSUME NEW i \in 1 .. Len(f) PROVE f[i] = r[i]
        <5>1. i \in 1 .. Len(t) - 1 /\ i \in 1 .. Len(t)
          BY <2>5, <4>1
        <5> QED
          BY <2>5, <2>10, <3>2, <5>1
      <4> QED
        BY <4>1, <4>2
    <3>4. PICK h : h = SubSeq(r, 1, Len(f))
      OBVIOUS
    <3>5. /\ h \in Seq(Characters) /\ Len(h) = Len(f)
          /\ \A i \in 1 .. Len(f) : h[i] = r[i]
      BY <2>5, <3>3, <3>4
    <3>6. SubSeq(f, 1, Len(f)) = f
      BY <3>2
    <3>7. f \in Seq(Characters)
      <4>1. Sextets \subseteq Characters
        BY SMT DEF Sextets, Characters
      <4> QED
        BY <3>2, <4>1, SeqWidens
    <3>8. f = h
      BY <3>3, <3>5, <3>7, SeqEqual
    <3> QED
      BY <3>1, <3>3, <3>4, <3>6, <3>8 DEF IsPrefix
  <2>14. \A i \in Len(u) + 1 .. Len(r) : r[i] = Padding /\ Len(r) % 4 = 0
    BY <2>4, <2>5, <2>12
  <2>15. Len(r) - Len(u) \in 0 .. 2
    BY <2>12
  <2> QED
    BY <2>2, <2>6, <2>8, <2>11, <2>13, <2>14, <2>15 DEF AtobAcceptsBase64
<1> QED
  BY <1>1, Base64Invariant, PTL

-----------------------------------------------------------------------------
(* The data classes in one instance.                                       *)

\* What is done in the instance is done by the decoder, by the lists and URLs or by
\* btoa and atob, and not seen by the others.
LEMMA InstanceOfAll == MCSpec => DecoderSpec /\ UrlSpec /\ Base64Spec
<1>1. MCInit => DecoderInit /\ UrlInit /\ Base64Init
  BY DEF MCInit
<1>2. [MCNext]_mcVars => [DecoderNext]_decoderVars
  BY DEF MCNext, mcVars
<1>3. [MCNext]_mcVars => [UrlNext]_urlVars
  BY DEF MCNext, mcVars
<1>4. [MCNext]_mcVars => [Base64Next]_base64Vars
  BY DEF MCNext, mcVars
<1> QED
  BY <1>1, <1>2, <1>3, <1>4, PTL DEF MCSpec, DecoderSpec, UrlSpec, Base64Spec

\* Type correctness of the data classes as they are run together: no entry of a pair
\* is in two arrays that objects hold, the parameters of a URL are a URLSearchParams
\* of its own, and the decoder holds back the last bytes it was given, at most three.
THEOREM DataTypeCorrect == MCSpec => []DataTypeOK
<1>1. DecoderTypeOK /\ ListsTypeOK /\ UrlTypeOK => DataTypeOK
  BY DEF DataTypeOK
<1> QED
  BY <1>1, InstanceOfAll, DecoderTypeCorrect, UrlTypeCorrect, PTL
=============================================================================
