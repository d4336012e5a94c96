------------------------------- MODULE UrlProofs -------------------------------
(***************************************************************************)
(* Proofs about Lists and Url: the two copies of a query agree, a loop     *)
(* over the pairs of an object meets all that were there, and the classes  *)
(* implement PairLists.                                                    *)
(***************************************************************************)
EXTENDS Url, ArraysProofs

Classed == Classes \cup {"none"}
Walks == [of : Objects \cup {NoObject}, live : BOOLEAN, array : Seq(Entries),
          start : Seq(Entries), yielded : Seq(Entries), sorted : BOOLEAN]

\* Every array has entries of its own.
Disjoint ==
  \A o, p \in Objects : \A i \in DOMAIN list[o], j \in DOMAIN list[p] :
    list[o][i] = list[p][j] => o = p /\ i = j

ArraysInv ==
  /\ entry \in Seq(Pairs) /\ Len(entry) <= MaxEntries
  /\ list \in [Objects -> Seq(1 .. Len(entry))]
  /\ Disjoint

\* t starts with s.
StartsWith(s, t) == Len(s) <= Len(t) /\ \A i \in 1 .. Len(s) : s[i] = t[i]

\* What the loop goes over: it began with that array, and has come that far in it.
Walked == IF walk.live THEN list[walk.of] ELSE walk.array

OnItsWay ==
  /\ StartsWith(walk.start, Walked) /\ StartsWith(walk.yielded, Walked)
  /\ \A i, j \in 1 .. Len(Walked) : Walked[i] = Walked[j] => i = j

WalkInv ==
  /\ walk \in Walks
  /\ walk.live => walk.of \in Objects /\ class[walk.of] # "none"
  /\ ~walk.sorted => OnItsWay

ListsInv == class \in [Objects -> Classed] /\ ArraysInv /\ WalkInv

-----------------------------------------------------------------------------
(* What every method, constructor and reload of an object o does to it.     *)

\* The array becomes base, items of the old one, and new entries; the entries
\* of other objects stay as they are.
OwnStep(o, base) ==
  /\ base \in Seq(1 .. Len(entry)) /\ Drawn(base, list[o])
  /\ entry' \in Seq(Pairs) /\ Len(entry) <= Len(entry') /\ Len(entry') <= MaxEntries
  /\ \A e \in 1 .. Len(entry) : entry'[e] = entry[e] \/ \E i \in 1 .. Len(list[o]) : list[o][i] = e
  /\ list' = [list EXCEPT ![o] = Pushed(base, Len(entry') - Len(entry))]

\* The loop sees the array grow, keeps the old one, or has it sorted under it.
Grows(o) ==
  /\ walk' = walk
  /\ \/ class[o] = "none"
     \/ list' = [list EXCEPT ![o] = Pushed(list[o], Len(entry') - Len(entry))]

Replaced(o) ==
  walk' = IF walk.of = o /\ walk.live
          THEN [walk EXCEPT !.live = FALSE, !.array = list[o]] ELSE walk

Sorted(o) ==
  walk' = IF walk.of = o /\ walk.live /\ list'[o] # list[o]
          THEN [walk EXCEPT !.sorted = TRUE] ELSE walk

ListStep(o) ==
  /\ \E base : OwnStep(o, base)
  /\ class' \in [Objects -> Classed] /\ \A p \in Objects : class[p] # "none" => class'[p] = class[p]
  /\ Grows(o) \/ Replaced(o) \/ Sorted(o)

\* An array with new entries.
LEMMA PushedFacts ==
  ASSUME Len(entry) \in Nat, NEW n \in Nat, NEW base \in Seq(1 .. Len(entry))
  PROVE  /\ Pushed(base, n) \in Seq(1 .. Len(entry) + n)
         /\ Len(Pushed(base, n)) = Len(base) + n
         /\ \A k \in 1 .. Len(base) : Pushed(base, n)[k] = base[k]
         /\ \A k \in Len(base) + 1 .. Len(base) + n :
              Pushed(base, n)[k] = Len(entry) + (k - Len(base))
<1> DEFINE fresh == [i \in 1 .. n |-> Len(entry) + i]
           all == 1 .. Len(entry) + n
<1>1. fresh \in Seq(all) /\ Len(fresh) = n /\ \A i \in 1 .. n : fresh[i] = Len(entry) + i
  OBVIOUS
<1>2. base \in Seq(all) /\ Len(base) \in Nat
  OBVIOUS
<1> HIDE DEF fresh, all
<1>3. /\ base \o fresh \in Seq(all) /\ Len(base \o fresh) = Len(base) + n
      /\ \A k \in 1 .. Len(base) : (base \o fresh)[k] = base[k]
      /\ \A k \in Len(base) + 1 .. Len(base) + n : (base \o fresh)[k] = fresh[k - Len(base)]
  <2>1. base \o fresh \in Seq(all) /\ Len(base \o fresh) = Len(base) + n
    BY <1>1, <1>2
  <2>2. \A k \in 1 .. Len(base) : (base \o fresh)[k] = base[k]
    BY <1>1, <1>2
  <2>3. \A k \in Len(base) + 1 .. Len(base) + n : (base \o fresh)[k] = fresh[k - Len(base)]
    BY <1>1, <1>2
  <2> QED
    BY <2>1, <2>2, <2>3
<1>4. \A k \in Len(base) + 1 .. Len(base) + n : k - Len(base) \in 1 .. n
  BY <1>2
<1>5. Pushed(base, n) = base \o fresh
  BY DEF Pushed, fresh
<1> QED
  BY <1>1, <1>3, <1>4, <1>5 DEF all

\* Nothing pushed.
LEMMA PushedNone ==
  ASSUME Len(entry) \in Nat, NEW base \in Seq(1 .. Len(entry))
  PROVE  Pushed(base, 0) = base
<1>1. /\ Pushed(base, 0) \in Seq(1 .. Len(entry)) /\ Len(Pushed(base, 0)) = Len(base)
      /\ \A k \in 1 .. Len(base) : Pushed(base, 0)[k] = base[k]
  BY PushedFacts
<1> QED
  BY <1>1, SeqEqual

\* The arrays stay disjoint, and no other object shows another list.
LEMMA OwnStepKeeps ==
  ASSUME ArraysInv, NEW o \in Objects, NEW base, OwnStep(o, base)
  PROVE  /\ ArraysInv'
         /\ \A p \in Objects \ {o} : list'[p] = list[p] /\ View(p)' = View(p)
<1> DEFINE n == Len(entry') - Len(entry)
           new == Pushed(base, n)
<1>1. Len(entry) \in Nat /\ Len(entry') \in Nat /\ n \in Nat /\ Len(entry) + n = Len(entry')
  BY DEF ArraysInv, OwnStep
<1>2. base \in Seq(1 .. Len(entry)) /\ Len(base) \in Nat
  BY DEF OwnStep
<1>3. /\ new \in Seq(1 .. Len(entry')) /\ Len(new) = Len(base) + n
      /\ \A k \in 1 .. Len(base) : new[k] = base[k]
      /\ \A k \in Len(base) + 1 .. Len(base) + n : new[k] = Len(entry) + (k - Len(base))
  BY <1>1, <1>2, PushedFacts
<1>4. list' = [list EXCEPT ![o] = new]
  BY DEF OwnStep
<1> HIDE DEF n, new
<1>5. \A p \in Objects : list[p] \in Seq(1 .. Len(entry))
  BY DEF ArraysInv
<1>6. \A p \in Objects \ {o} : list'[p] = list[p]
  BY <1>4, <1>5 DEF ArraysInv
<1>7. list'[o] = new
  BY <1>4 DEF ArraysInv
<1>8. list' \in [Objects -> Seq(1 .. Len(entry'))]
  <2>1. \A p \in Objects : list[p] \in Seq(1 .. Len(entry'))
    <3> SUFFICES ASSUME NEW p \in Objects PROVE list[p] \in Seq(1 .. Len(entry'))
      OBVIOUS
    <3>1. 1 .. Len(entry) \subseteq 1 .. Len(entry')
      BY <1>1
    <3> QED
      BY <1>5, <3>1, SeqWidens
  <2> QED
    BY <1>3, <1>4, <2>1 DEF ArraysInv
<1>9. PICK q \in [1 .. Len(base) -> 1 .. Len(list[o])] :
        /\ \A j, k \in 1 .. Len(base) : q[j] = q[k] => j = k
        /\ \A k \in 1 .. Len(base) : base[k] = list[o][q[k]]
  BY DEF OwnStep, Drawn
<1>10. \A p, r \in Objects : \A i \in 1 .. Len(list[p]), j \in 1 .. Len(list[r]) :
         list[p][i] = list[r][j] => p = r /\ i = j
  BY <1>5 DEF ArraysInv, Disjoint
<1>11. ASSUME NEW i \in 1 .. Len(new), NEW j \in 1 .. Len(new), new[i] = new[j] PROVE i = j
  <2>1. \A k \in 1 .. Len(new) : k \in 1 .. Len(base) \/ k \in Len(base) + 1 .. Len(base) + n
    BY <1>1, <1>2, <1>3
  <2>2. ASSUME NEW k \in 1 .. Len(base) PROVE new[k] = base[k] /\ base[k] \in 1 .. Len(entry)
    BY <1>2, <1>3
  <2>3. ASSUME NEW k \in Len(base) + 1 .. Len(base) + n
        PROVE  new[k] \in Nat /\ new[k] > Len(entry)
    <3>1. new[k] = Len(entry) + (k - Len(base)) /\ k - Len(base) \in 1 .. n
      BY <1>1, <1>2, <1>3
    <3> QED
      BY <1>1, <3>1
  <2>4. CASE i \in 1 .. Len(base) /\ j \in 1 .. Len(base)
    <3>1. base[i] = base[j] /\ base[i] = list[o][q[i]] /\ base[j] = list[o][q[j]]
      BY <1>9, <1>11, <2>2, <2>4
    <3>2. q[i] \in 1 .. Len(list[o]) /\ q[j] \in 1 .. Len(list[o])
      BY <1>9, <2>4
    <3>3. q[i] = q[j]
      <4>1. \A x, y \in 1 .. Len(list[o]) : list[o][x] = list[o][y] => x = y
        BY <1>10
      <4> QED
        BY <3>1, <3>2, <4>1
    <3> QED
      BY <1>9, <2>4, <3>3
  <2>5. CASE i \in Len(base) + 1 .. Len(base) + n /\ j \in Len(base) + 1 .. Len(base) + n
    BY <1>1, <1>2, <1>3, <1>11, <2>5
  <2>6. \A k \in 1 .. Len(base), l \in Len(base) + 1 .. Len(base) + n : new[k] < new[l]
    <3> SUFFICES ASSUME NEW k \in 1 .. Len(base), NEW l \in Len(base) + 1 .. Len(base) + n
                 PROVE  new[k] < new[l]
      OBVIOUS
    <3>1. new[k] \in 1 .. Len(entry) /\ new[l] \in Nat /\ new[l] > Len(entry)
      BY <2>2, <2>3
    <3>2. \A x \in 1 .. Len(entry), y \in Nat : y > Len(entry) => x < y
      BY <1>1
    <3> QED
      BY <3>1, <3>2
  <2>7. /\ ~ (i \in 1 .. Len(base) /\ j \in Len(base) + 1 .. Len(base) + n)
        /\ ~ (j \in 1 .. Len(base) /\ i \in Len(base) + 1 .. Len(base) + n)
    <3>1. new[i] \in 1 .. Len(entry') /\ new[j] \in 1 .. Len(entry')
      BY <1>3
    <3>2. \A x \in 1 .. Len(entry') : x \in Nat
      OBVIOUS
    <3> QED
      BY <1>11, <2>6, <3>1, <3>2
  <2> QED
    BY <2>1, <2>4, <2>5, <2>7
<1>12. ASSUME NEW p \in Objects \ {o}, NEW i \in 1 .. Len(list[p]), NEW j \in 1 .. Len(new)
       PROVE  list[p][i] # new[j]
  <2>1. list[p][i] \in 1 .. Len(entry)
    BY <1>5
  <2>2. CASE j \in 1 .. Len(base)
    <3>1. new[j] = list[o][q[j]] /\ q[j] \in 1 .. Len(list[o])
      BY <1>3, <1>9, <2>2
    <3> QED
      BY <1>10, <3>1
  <2>3. CASE j \in Len(base) + 1 .. Len(base) + n
    <3>1. new[j] \in Nat /\ new[j] > Len(entry)
      BY <1>1, <1>2, <1>3, <2>3
    <3> QED
      BY <1>1, <2>1, <3>1
  <2> QED
    BY <1>1, <1>2, <1>3, <2>2, <2>3
<1>13. ASSUME NEW p \in Objects, NEW r \in Objects,
              NEW i \in 1 .. Len(list'[p]), NEW j \in 1 .. Len(list'[r]),
              list'[p][i] = list'[r][j]
       PROVE  p = r /\ i = j
  <2>1. CASE p = o /\ r = o
    BY <1>7, <1>11, <1>13, <2>1
  <2>2. CASE p # o /\ r # o
    BY <1>6, <1>10, <1>13, <2>2
  <2>3. CASE p = o /\ r # o
    BY <1>6, <1>7, <1>12, <1>13, <2>3
  <2>4. CASE p # o /\ r = o
    BY <1>6, <1>7, <1>12, <1>13, <2>4
  <2> QED
    BY <2>1, <2>2, <2>3, <2>4
<1>14. Disjoint'
  <2>1. \A p \in Objects : DOMAIN list'[p] = 1 .. Len(list'[p])
    BY <1>8
  <2> QED
    BY <1>13, <2>1 DEF Disjoint
<1>15. ASSUME NEW p \in Objects \ {o} PROVE View(p)' = View(p)
  <2>1. list'[p] = list[p] /\ DOMAIN list[p] = 1 .. Len(list[p])
    BY <1>5, <1>6
  <2>2. ASSUME NEW i \in 1 .. Len(list[p]) PROVE entry'[list[p][i]] = entry[list[p][i]]
    <3>1. list[p][i] \in 1 .. Len(entry)
      BY <1>5
    <3>2. \A k \in 1 .. Len(list[o]) : list[o][k] # list[p][i]
      BY <1>10
    <3> QED
      BY <3>1, <3>2 DEF OwnStep
  <2> QED
    BY <2>1, <2>2 DEF View
<1> QED
  BY <1>6, <1>8, <1>14, <1>15 DEF ArraysInv, OwnStep

-----------------------------------------------------------------------------
(* The loop.                                                               *)

\* The action of LoopMeetsAll.
LoopMet ==
  walk' = NoWalk /\ ~walk.sorted =>
    IsPrefix(walk.start, walk.yielded) /\ IsInjective(walk.yielded)

LEMMA NoLoopMet ==
  ASSUME walk = NoWalk
  PROVE  LoopMet
<1>1. walk.start = <<>> /\ walk.yielded = <<>>
  BY DEF NoWalk
<1>2. IsPrefix(<<>>, <<>>) /\ IsInjective(<<>>)
  BY DEF IsPrefix, IsInjective
<1> QED
  BY <1>1, <1>2 DEF LoopMet

\* A step of an object does not end a loop.
LEMMA ListStepIsNoEnd ==
  ASSUME NEW o \in Objects, WalkInv, Grows(o) \/ Replaced(o) \/ Sorted(o), walk' = NoWalk
  PROVE  walk = NoWalk
<1>1. NoObject \notin Objects
  BY ListsAssumption
<1>2. NoWalk.of = NoObject /\ NoWalk.sorted = FALSE
  BY DEF NoWalk
<1>3. CASE Grows(o)
  BY <1>3 DEF Grows
<1>4. CASE Replaced(o)
  <2>1. CASE walk.of = o /\ walk.live
    <3>1. walk'.of = o
      BY <1>4, <2>1 DEF Replaced, WalkInv, Walks
    <3> QED
      BY <1>1, <1>2, <3>1
  <2>2. CASE ~ (walk.of = o /\ walk.live)
    BY <1>4, <2>2 DEF Replaced
  <2> QED
    BY <2>1, <2>2
<1>5. CASE Sorted(o)
  <2>1. CASE walk.of = o /\ walk.live /\ list'[o] # list[o]
    <3>1. walk'.sorted = TRUE
      BY <1>5, <2>1 DEF Sorted, WalkInv, Walks
    <3> QED
      BY <1>2, <3>1
  <2>2. CASE ~ (walk.of = o /\ walk.live /\ list'[o] # list[o])
    BY <1>5, <2>2 DEF Sorted
  <2> QED
    BY <2>1, <2>2
<1> QED
  BY <1>3, <1>4, <1>5

\* The loop goes on over the array it began with, or over one that only grew.
LEMMA ListStepKeepsWalk ==
  ASSUME ListsInv, NEW o \in Objects, ListStep(o)
  PROVE  ListsInv' /\ LoopMet
<1>1. PICK base : OwnStep(o, base)
  BY DEF ListStep
<1>2. ArraysInv' /\ \A p \in Objects \ {o} : list'[p] = list[p]
  BY <1>1, OwnStepKeeps DEF ListsInv
<1>3. class' \in [Objects -> Classed] /\ \A p \in Objects : class[p] # "none" => class'[p] = class[p]
  BY DEF ListStep
<1>4. LoopMet
  <2>1. CASE walk = NoWalk
    BY <2>1, NoLoopMet
  <2>2. CASE walk # NoWalk
    BY <2>2, ListStepIsNoEnd DEF LoopMet, ListStep, ListsInv
  <2> QED
    BY <2>1, <2>2
<1>5. walk \in Walks /\ (walk.live => walk.of \in Objects /\ class[walk.of] # "none")
  BY DEF ListsInv, WalkInv
<1>6. ~walk.sorted => OnItsWay
  BY DEF ListsInv, WalkInv
<1>7. ASSUME walk' = walk, walk.live => list'[walk.of] = list[walk.of] PROVE WalkInv'
  <2>1. Walked' = Walked
    BY <1>5, <1>7 DEF Walked
  <2>2. OnItsWay => OnItsWay'
    BY <1>7, <2>1 DEF OnItsWay
  <2> QED
    BY <1>3, <1>5, <1>6, <1>7, <2>2 DEF WalkInv
<1>8. CASE ~ (walk.of = o /\ walk.live)
  <2>1. walk' = walk
    BY <1>8 DEF ListStep, Grows, Replaced, Sorted
  <2>2. walk.live => list'[walk.of] = list[walk.of]
    BY <1>2, <1>5, <1>8
  <2> QED
    BY <1>2, <1>3, <1>4, <1>7, <2>1, <2>2 DEF ListsInv
<1>9. CASE walk.of = o /\ walk.live
  <2>1. Walked = list[o] /\ class[o] # "none" /\ class'[o] # "none"
    BY <1>3, <1>5, <1>9 DEF Walked
  <2>2. list[o] \in Seq(1 .. Len(entry)) /\ list'[o] \in Seq(1 .. Len(entry'))
    BY <1>2 DEF ListsInv, ArraysInv
  <2>3. CASE Grows(o)
    <3> DEFINE n == Len(entry') - Len(entry)
    <3>1. walk' = walk /\ list' = [list EXCEPT ![o] = Pushed(list[o], n)]
      BY <2>1, <2>3 DEF Grows
    <3>2. list'[o] = Pushed(list[o], n)
      BY <3>1 DEF ListsInv, ArraysInv
    <3>3. Len(entry) \in Nat /\ n \in Nat
      BY <1>1 DEF ListsInv, ArraysInv, OwnStep
    <3> HIDE DEF n
    <3>4. Walked' = list'[o]
      BY <1>9, <3>1 DEF Walked
    <3>5. Len(list'[o]) = Len(list[o]) + n /\ \A k \in 1 .. Len(list[o]) : list'[o][k] = list[o][k]
      BY <2>2, <3>2, <3>3, PushedFacts
    <3>6. \A s : Len(s) \in Nat /\ StartsWith(s, list[o]) => StartsWith(s, list'[o])
      <4> SUFFICES ASSUME NEW s, Len(s) \in Nat, StartsWith(s, list[o]) PROVE StartsWith(s, list'[o])
        OBVIOUS
      <4>1. Len(s) <= Len(list[o]) /\ Len(list[o]) \in Nat /\ \A i \in 1 .. Len(s) : s[i] = list[o][i]
        BY <2>2 DEF StartsWith
      <4>2. Len(s) <= Len(list'[o]) /\ \A i \in 1 .. Len(s) : i \in 1 .. Len(list[o])
        BY <3>3, <3>5, <4>1
      <4> QED
        BY <3>5, <4>1, <4>2 DEF StartsWith
    <3>7. Len(walk.start) \in Nat /\ Len(walk.yielded) \in Nat
      BY <1>5 DEF Walks
    <3>8. \A i, j \in 1 .. Len(list'[o]) : list'[o][i] = list'[o][j] => i = j
      <4>1. DOMAIN list'[o] = 1 .. Len(list'[o])
        BY <2>2
      <4> QED
        BY <1>2, <4>1 DEF ArraysInv, Disjoint
    <3>9. OnItsWay => OnItsWay'
      BY <2>1, <3>1, <3>4, <3>6, <3>7, <3>8 DEF OnItsWay
    <3>10. WalkInv'
      BY <1>3, <1>5, <1>6, <3>1, <3>9 DEF WalkInv
    <3> QED
      BY <1>2, <1>3, <1>4, <3>10 DEF ListsInv
  <2>4. CASE Replaced(o)
    <3>1. walk' = [walk EXCEPT !.live = FALSE, !.array = list[o]]
      BY <1>9, <2>4 DEF Replaced
    <3>2. list[o] \in Seq(Entries)
      <4>1. Len(entry) \in Nat /\ Len(entry) <= MaxEntries /\ MaxEntries \in Nat
        BY ListsAssumption DEF ListsInv, ArraysInv
      <4>2. 1 .. Len(entry) \subseteq Entries
        BY <4>1 DEF Entries
      <4> QED
        BY <2>2, <4>2, SeqWidens
    <3>3. /\ walk' \in Walks /\ walk'.live = FALSE /\ walk'.array = list[o]
          /\ walk'.start = walk.start /\ walk'.yielded = walk.yielded /\ walk'.sorted = walk.sorted
      BY <1>5, <3>1, <3>2 DEF Walks
    <3>4. Walked' = Walked
      BY <2>1, <3>3 DEF Walked
    <3>5. OnItsWay => OnItsWay'
      BY <3>3, <3>4 DEF OnItsWay
    <3>6. WalkInv'
      BY <1>6, <3>3, <3>5 DEF WalkInv
    <3> QED
      BY <1>2, <1>3, <1>4, <3>6 DEF ListsInv
  <2>5. CASE Sorted(o)
    <3>1. CASE list'[o] = list[o]
      BY <1>2, <1>3, <1>4, <1>7, <1>9, <2>5, <3>1 DEF ListsInv, Sorted
    <3>2. CASE list'[o] # list[o]
      <4>1. walk' = [walk EXCEPT !.sorted = TRUE]
        BY <1>9, <2>5, <3>2 DEF Sorted
      <4>2. walk' \in Walks /\ walk'.sorted = TRUE /\ walk'.of = o
        BY <1>5, <1>9, <4>1 DEF Walks
      <4>3. WalkInv'
        BY <2>1, <4>2 DEF WalkInv
      <4> QED
        BY <1>2, <1>3, <1>4, <4>3 DEF ListsInv
    <3> QED
      BY <3>1, <3>2
  <2> QED
    BY <2>3, <2>4, <2>5 DEF ListStep
<1> QED
  BY <1>8, <1>9

-----------------------------------------------------------------------------
(* Every operation on an object o is a ListStep of it.                      *)

LEMMA LengthOfEntry ==
  ASSUME ListsInv
  PROVE  /\ Len(entry) \in Nat /\ entry \in Seq(Pairs) /\ DOMAIN entry = 1 .. Len(entry)
         /\ Len(entry) <= MaxEntries /\ MaxEntries \in Nat
         /\ \A p \in Objects : list[p] \in Seq(1 .. Len(entry))
         /\ \A p \in Objects : class[p] \in Classed
BY ListsAssumption DEF ListsInv, ArraysInv

\* With new entries.
LEMMA PushStep ==
  ASSUME ListsInv, NEW o \in Objects, NEW pairs \in Seq(Pairs), NEW base \in Seq(1 .. Len(entry)),
         Drawn(base, list[o]), Push(pairs),
         list' = [list EXCEPT ![o] = Pushed(base, Len(pairs))]
  PROVE  OwnStep(o, base) /\ Len(entry') - Len(entry) = Len(pairs)
<1>1. entry' = entry \o pairs /\ Len(entry) + Len(pairs) <= MaxEntries
  BY DEF Push
<1>2. Len(entry) \in Nat /\ Len(pairs) \in Nat /\ entry \in Seq(Pairs)
  BY LengthOfEntry
<1>3. /\ entry' \in Seq(Pairs) /\ Len(entry') = Len(entry) + Len(pairs)
      /\ \A e \in 1 .. Len(entry) : entry'[e] = entry[e]
  BY <1>1, <1>2
<1>4. Len(entry') - Len(entry) = Len(pairs)
  BY <1>2, <1>3
<1>5. Len(entry) <= Len(entry') /\ Len(entry') <= MaxEntries
  BY <1>1, <1>2, <1>3
<1> QED
  BY <1>3, <1>4, <1>5 DEF OwnStep

\* With none.
LEMMA PickStep ==
  ASSUME ListsInv, NEW o \in Objects, NEW base \in Seq(1 .. Len(entry)), Drawn(base, list[o]),
         entry' \in Seq(Pairs), Len(entry') = Len(entry),
         \A e \in 1 .. Len(entry) : entry'[e] = entry[e] \/ \E i \in 1 .. Len(list[o]) : list[o][i] = e,
         list' = [list EXCEPT ![o] = base]
  PROVE  OwnStep(o, base)
<1>1. Len(entry) \in Nat /\ Len(entry) <= MaxEntries /\ Len(entry') - Len(entry) = 0
  BY LengthOfEntry
<1>2. Pushed(base, Len(entry') - Len(entry)) = base
  BY <1>1, PushedNone
<1>3. Len(entry) <= Len(entry') /\ Len(entry') <= MaxEntries
  BY <1>1
<1>4. list' = [list EXCEPT ![o] = Pushed(base, Len(entry') - Len(entry))]
  BY <1>2
<1> QED
  BY <1>3, <1>4 DEF OwnStep

\* What a constructor or a reload stores is what the object then shows.
LEMMA PushView ==
  ASSUME ListsInv, NEW o \in Objects, NEW pairs \in Seq(Pairs), Push(pairs),
         list' = [list EXCEPT ![o] = Pushed(<<>>, Len(pairs))]
  PROVE  View(o)' = pairs
<1>1. entry' = entry \o pairs
  BY DEF Push
<1>2. Len(entry) \in Nat /\ Len(pairs) \in Nat /\ entry \in Seq(Pairs)
  BY LengthOfEntry
<1>3. <<>> \in Seq(1 .. Len(entry)) /\ Len(<<>>) = 0
  OBVIOUS
<1>4. list'[o] = Pushed(<<>>, Len(pairs))
  BY DEF ListsInv, ArraysInv
<1>5. /\ list'[o] \in Seq(1 .. Len(entry) + Len(pairs)) /\ Len(list'[o]) = Len(pairs)
      /\ \A k \in 1 .. Len(pairs) : list'[o][k] = Len(entry) + k
  <2> DEFINE none == <<>>
             new == Pushed(none, Len(pairs))
  <2>1. none \in Seq(1 .. Len(entry)) /\ Len(none) = 0
    BY <1>3
  <2> HIDE DEF none
  <2>2. /\ new \in Seq(1 .. Len(entry) + Len(pairs)) /\ Len(new) = Len(none) + Len(pairs)
        /\ \A k \in Len(none) + 1 .. Len(none) + Len(pairs) : new[k] = Len(entry) + (k - Len(none))
    BY <1>2, <2>1, PushedFacts
  <2>3. list'[o] = new
    BY <1>4 DEF none
  <2> HIDE DEF new
  <2> QED
    BY <1>2, <2>1, <2>2, <2>3
<1>6. DOMAIN list'[o] = 1 .. Len(pairs)
  BY <1>5
<1>7. \A k \in 1 .. Len(pairs) : entry'[list'[o][k]] = pairs[k]
  BY <1>1, <1>2, <1>5
<1>8. pairs = [k \in 1 .. Len(pairs) |-> pairs[k]]
  OBVIOUS
<1> QED
  BY <1>6, <1>7, <1>8 DEF View

LEMMA KeyIsName ==
  ASSUME NEW o, NEW name \in Names
  PROVE  Key(o, name) \in Names /\ Lower[name] \in Names
BY LowerAssumption DEF Key

LEMMA ConstructStep ==
  ASSUME ListsInv, NEW o \in Objects, NEW c \in Classes, NEW pairs \in Seq(Pairs),
         Construct(o, c, pairs)
  PROVE  /\ ListStep(o) /\ class[o] = "none" /\ class' = [class EXCEPT ![o] = c]
         /\ c = "URLSearchParams" => View(o)' = pairs
<1> DEFINE lower == [i \in DOMAIN pairs |-> <<Lower[pairs[i][1]], pairs[i][2]>>]
           stored == IF c = "Headers" THEN lower ELSE pairs
<1>1. /\ class[o] = "none" /\ class' = [class EXCEPT ![o] = c] /\ Push(stored)
      /\ list' = [list EXCEPT ![o] = Pushed(<<>>, Len(pairs))] /\ walk' = walk
  BY DEF Construct, InPlace
<1>2. lower \in Seq(Pairs) /\ Len(lower) = Len(pairs)
  <2>1. \A i \in 1 .. Len(pairs) : pairs[i][1] \in Names /\ pairs[i][2] \in Values
    BY DEF Pairs
  <2>2. \A i \in 1 .. Len(pairs) : Lower[pairs[i][1]] \in Names
    BY <2>1, LowerAssumption
  <2>3. \A i \in 1 .. Len(pairs) : <<Lower[pairs[i][1]], pairs[i][2]>> \in Pairs
    BY <2>1, <2>2 DEF Pairs
  <2>4. DOMAIN pairs = 1 .. Len(pairs) /\ Len(pairs) \in Nat
    OBVIOUS
  <2> QED
    BY <2>3, <2>4
<1> HIDE DEF lower
<1>3. stored \in Seq(Pairs) /\ Len(stored) = Len(pairs)
  BY <1>2
<1>4. c # "Headers" => stored = pairs
  OBVIOUS
<1> HIDE DEF stored
<1>5. <<>> \in Seq(1 .. Len(entry)) /\ Drawn(<<>>, list[o])
  <2>1. list[o] \in Seq(1 .. Len(entry))
    BY LengthOfEntry
  <2> QED
    BY <2>1, DrawnItself
<1>6. OwnStep(o, <<>>)
  BY <1>1, <1>3, <1>5, PushStep
<1>7. c = "URLSearchParams" => View(o)' = pairs
  BY <1>1, <1>4, PushView
<1>8. class' \in [Objects -> Classed] /\ \A p \in Objects : class[p] # "none" => class'[p] = class[p]
  BY <1>1 DEF ListsInv, Classed
<1>9. Grows(o)
  BY <1>1 DEF Grows
<1> QED
  BY <1>1, <1>6, <1>7, <1>8, <1>9 DEF ListStep

LEMMA AppendStep ==
  ASSUME ListsInv, NEW o \in Objects, NEW name \in Names, NEW value \in Values,
         AppendPair(o, name, value)
  PROVE  ListStep(o) /\ class' = class
<1> DEFINE pairs == <<<<Key(o, name), value>>>>
<1>1. class' = class /\ Push(pairs) /\ list' = [list EXCEPT ![o] = Pushed(list[o], 1)] /\ walk' = walk
  BY DEF AppendPair, InPlace
<1>2. pairs \in Seq(Pairs) /\ Len(pairs) = 1
  <2>1. <<Key(o, name), value>> \in Pairs
    BY KeyIsName DEF Pairs
  <2> QED
    BY <2>1
<1> HIDE DEF pairs
<1>3. list[o] \in Seq(1 .. Len(entry))
  BY LengthOfEntry
<1>4. Drawn(list[o], list[o])
  BY <1>3, DrawnItself
<1>5. OwnStep(o, list[o]) /\ Len(entry') - Len(entry) = 1
  BY <1>1, <1>2, <1>3, <1>4, PushStep
<1>6. Grows(o)
  BY <1>1, <1>5 DEF Grows
<1> QED
  BY <1>1, <1>5, <1>6 DEF ListStep, ListsInv

LEMMA SetHeaderStep ==
  ASSUME ListsInv, NEW o \in Objects, NEW name \in Names, NEW value \in Values,
         SetHeader(o, name, value)
  PROVE  ListStep(o) /\ class' = class
<1> DEFINE pairs == <<<<Lower[name], value>>>>
           base == Without(list[o], Lower[name])
<1>1. class' = class /\ Push(pairs) /\ list' = [list EXCEPT ![o] = Pushed(base, 1)] /\ Replaced(o)
  BY DEF SetHeader, Replace, Replaced
<1>2. pairs \in Seq(Pairs) /\ Len(pairs) = 1
  <2>1. <<Lower[name], value>> \in Pairs
    BY KeyIsName DEF Pairs
  <2> QED
    BY <2>1
<1>3. list[o] \in Seq(1 .. Len(entry))
  BY LengthOfEntry
<1>4. base \in Seq(1 .. Len(entry)) /\ Drawn(base, list[o])
  BY <1>3, FilteredDrawn DEF Without
<1> HIDE DEF pairs, base
<1>5. OwnStep(o, base)
  BY <1>1, <1>2, <1>4, PushStep
<1> QED
  BY <1>1, <1>5 DEF ListStep, ListsInv

LEMMA SetFirstStep ==
  ASSUME ListsInv, NEW o \in Objects, NEW name \in Names, NEW value \in Values,
         SetFirst(o, name, value)
  PROVE  ListStep(o) /\ class' = class
<1>1. CASE At(o, name) = {}
  <2>1. AppendPair(o, name, value)
    BY <1>1 DEF SetFirst
  <2> QED
    BY <2>1, AppendStep
<1>2. CASE At(o, name) # {}
  <2> DEFINE first == Min(At(o, name))
             e == list[o][first]
             base == SubSeq(list[o], 1, first)
                       \o Without(SubSeq(list[o], first + 1, Len(list[o])), name)
  <2>1. /\ class' = class /\ entry' = [entry EXCEPT ![e] = [entry[e] EXCEPT ![2] = value]]
        /\ list' = [list EXCEPT ![o] = base] /\ Replaced(o)
    BY <1>2 DEF SetFirst, Replace, Replaced
  <2>2. /\ list[o] \in Seq(1 .. Len(entry)) /\ entry \in Seq(Pairs) /\ Len(entry) \in Nat
        /\ DOMAIN entry = 1 .. Len(entry)
    BY LengthOfEntry
  <2>3. At(o, name) \subseteq Nat /\ At(o, name) \subseteq 1 .. Len(list[o])
    BY <2>2 DEF At
  <2>4. first \in 1 .. Len(list[o])
    BY <1>2, <2>3, MinIsLeast
  <2> HIDE DEF first
  <2>5. e \in 1 .. Len(entry) /\ \E i \in 1 .. Len(list[o]) : list[o][i] = e
    BY <2>2, <2>4
  <2>6. base \in Seq(1 .. Len(entry)) /\ Drawn(base, list[o])
    BY <2>2, <2>4, HeadDrawn DEF Without
  <2> HIDE DEF e, base
  <2>7. [entry[e] EXCEPT ![2] = value] \in Pairs
    <3>1. PICK n \in Names, v \in Values : entry[e] = <<n, v>>
      BY <2>2, <2>5 DEF Pairs
    <3>2. [<<n, v>> EXCEPT ![2] = value] = <<n, value>>
      OBVIOUS
    <3> QED
      BY <3>1, <3>2 DEF Pairs
  <2>8. /\ entry' \in Seq(Pairs) /\ Len(entry') = Len(entry)
        /\ \A d \in 1 .. Len(entry) : d # e => entry'[d] = entry[d]
    BY <2>1, <2>2, <2>5, <2>7
  <2>9. \A d \in 1 .. Len(entry) : entry'[d] = entry[d] \/ \E i \in 1 .. Len(list[o]) : list[o][i] = d
    BY <2>5, <2>8
  <2>10. OwnStep(o, base)
    BY <2>1, <2>6, <2>8, <2>9, PickStep
  <2> QED
    BY <2>1, <2>10 DEF ListStep, ListsInv
<1> QED
  BY <1>1, <1>2

\* delete, by name or by pair.
LEMMA DropStep ==
  ASSUME ListsInv, NEW o \in Objects, NEW S,
         Replace(o, Filtered(list[o], S)), UNCHANGED <<class, entry>>
  PROVE  ListStep(o) /\ class' = class
<1> DEFINE base == Filtered(list[o], S)
<1>1. class' = class /\ entry' = entry /\ list' = [list EXCEPT ![o] = base] /\ Replaced(o)
  BY DEF Replace, Replaced
<1>2. list[o] \in Seq(1 .. Len(entry)) /\ entry \in Seq(Pairs)
  BY LengthOfEntry
<1>3. base \in Seq(1 .. Len(entry)) /\ Drawn(base, list[o])
  BY <1>2, FilteredDrawn
<1> HIDE DEF base
<1>4. OwnStep(o, base)
  BY <1>1, <1>2, <1>3, PickStep
<1> QED
  BY <1>1, <1>4 DEF ListStep, ListsInv

LEMMA SortStep ==
  ASSUME ListsInv, NEW o \in Objects, Sort(o)
  PROVE  ListStep(o) /\ class' = class
<1> DEFINE n == Len(NameOrder)
           sets == [i \in 1 .. n |-> Named(NameOrder[i])]
           base == FlattenSeq([i \in 1 .. n |-> Filtered(list[o], sets[i])])
<1>1. n \in Nat /\ DOMAIN NameOrder = 1 .. n
  BY NamesAssumption
<1>2. FlattenSeq([i \in DOMAIN NameOrder |-> Filtered(list[o], Named(NameOrder[i]))]) = base
  BY <1>1
<1>3. list[o] \in Seq(1 .. Len(entry)) /\ entry \in Seq(Pairs)
  BY LengthOfEntry
<1>4. Apart(sets, n)
  <2>1. \A i, j \in 1 .. n : NameOrder[i] = NameOrder[j] => i = j
    BY <1>1, NamesAssumption DEF IsInjective
  <2> QED
    BY <2>1 DEF Named, Apart
<1> HIDE DEF n, sets
<1>5. base \in Seq(1 .. Len(entry)) /\ Drawn(base, list[o])
  BY <1>1, <1>3, <1>4, SortedDrawn
<1> HIDE DEF base
<1>6. /\ class' = class /\ entry' = entry /\ list' = [list EXCEPT ![o] = base]
      /\ walk' = IF walk.of = o /\ walk.live /\ base # list[o]
                 THEN [walk EXCEPT !.sorted = TRUE] ELSE walk
  BY <1>2 DEF Sort
<1>7. list'[o] = base
  BY <1>6 DEF ListsInv, ArraysInv
<1>8. Sorted(o)
  BY <1>6, <1>7 DEF Sorted
<1>9. OwnStep(o, base)
  BY <1>3, <1>5, <1>6, PickStep
<1> QED
  BY <1>6, <1>8, <1>9 DEF ListStep, ListsInv

LEMMA MethodStep ==
  ASSUME ListsInv, NEW o \in Objects, Method(o)
  PROVE  ListStep(o) /\ class' = class /\ class[o] # "none"
<1>1. ASSUME NEW pair \in Pairs,
             \/ AppendPair(o, pair[1], pair[2]) \/ SetHeader(o, pair[1], pair[2])
             \/ SetFirst(o, pair[1], pair[2])
      PROVE  ListStep(o) /\ class' = class /\ class[o] # "none"
  <2>1. pair[1] \in Names /\ pair[2] \in Values
    BY DEF Pairs
  <2>2. CASE AppendPair(o, pair[1], pair[2])
    BY <2>1, <2>2, AppendStep DEF AppendPair
  <2>3. CASE SetHeader(o, pair[1], pair[2])
    BY <2>1, <2>3, SetHeaderStep DEF SetHeader
  <2>4. CASE SetFirst(o, pair[1], pair[2])
    BY <2>1, <2>4, SetFirstStep DEF SetFirst
  <2> QED
    BY <1>1, <2>2, <2>3, <2>4
<1>2. ASSUME NEW pair \in Pairs, DeletePair(o, pair)
      PROVE  ListStep(o) /\ class' = class /\ class[o] # "none"
  BY <1>2, DropStep DEF DeletePair
<1>3. ASSUME NEW name \in Names, Delete(o, name)
      PROVE  ListStep(o) /\ class' = class /\ class[o] # "none"
  BY <1>3, DropStep DEF Delete, Without
<1>4. CASE Sort(o)
  BY <1>4, SortStep DEF Sort
<1> QED
  BY <1>1, <1>2, <1>3, <1>4 DEF Method

\* A reload: the parameters show the query they were given.
LEMMA ReplaceAllStep ==
  ASSUME ListsInv, NEW o \in Objects, NEW query \in Seq(Pairs),
         Push(query), Replace(o, Pushed(<<>>, Len(query))), UNCHANGED class
  PROVE  ListStep(o) /\ View(o)' = query
<1>1. class' = class /\ list' = [list EXCEPT ![o] = Pushed(<<>>, Len(query))] /\ Replaced(o)
  BY DEF Replace, Replaced
<1>2. list[o] \in Seq(1 .. Len(entry)) /\ <<>> \in Seq(1 .. Len(entry))
  BY LengthOfEntry
<1>3. Drawn(<<>>, list[o])
  BY <1>2, DrawnItself
<1>4. OwnStep(o, <<>>)
  BY <1>1, <1>2, <1>3, PushStep
<1>5. View(o)' = query
  BY <1>1, PushView
<1> QED
  BY <1>1, <1>4, <1>5 DEF ListStep, ListsInv

\* What a constructor copies are pairs.
LEMMA ViewOfPairs ==
  ASSUME ListsInv, NEW o \in Objects
  PROVE  View(o) \in Seq(Pairs)
<1>1. list[o] \in Seq(1 .. Len(entry)) /\ entry \in Seq(Pairs) /\ Len(entry) \in Nat
  BY LengthOfEntry
<1>2. \A i \in 1 .. Len(list[o]) : entry[list[o][i]] \in Pairs
  BY <1>1
<1>3. DOMAIN list[o] = 1 .. Len(list[o]) /\ Len(list[o]) \in Nat
  BY <1>1
<1> QED
  BY <1>2, <1>3 DEF View

-----------------------------------------------------------------------------
(* The loop's own steps.                                                    *)

LEMMA IsPrefixFacts ==
  ASSUME NEW X, NEW s \in Seq(X), NEW t \in Seq(X), StartsWith(s, t)
  PROVE  IsPrefix(s, t)
<1>1. Len(s) <= Len(t) /\ Len(s) \in Nat /\ Len(t) \in Nat
  BY DEF StartsWith
<1>2. SubSeq(s, 1, Len(s)) = s
  OBVIOUS
<1>3. /\ SubSeq(t, 1, Len(s)) \in Seq(X) /\ Len(SubSeq(t, 1, Len(s))) = Len(s)
      /\ \A i \in 1 .. Len(s) : SubSeq(t, 1, Len(s))[i] = t[i]
  BY <1>1
<1>4. SubSeq(t, 1, Len(s)) = s
  BY <1>3, SeqEqual DEF StartsWith
<1> QED
  BY <1>1, <1>2, <1>4 DEF IsPrefix

LEMMA WalkBeginsStep ==
  ASSUME ListsInv, NEW o \in Objects, WalkBegins(o)
  PROVE  ListsInv' /\ LoopMet /\ UNCHANGED <<class, list, entry>>
<1>1. /\ walk' = [NoWalk EXCEPT !.of = o, !.live = TRUE, !.start = list[o]] /\ class[o] # "none"
      /\ walk = NoWalk /\ class' = class /\ list' = list /\ entry' = entry
  BY DEF WalkBegins
<1>2. list[o] \in Seq(1 .. Len(entry)) /\ Len(list[o]) \in Nat
  BY LengthOfEntry
<1>3. list[o] \in Seq(Entries)
  <2>1. 1 .. Len(entry) \subseteq Entries
    BY LengthOfEntry DEF Entries
  <2> QED
    BY <1>2, <2>1, SeqWidens
<1>4. /\ walk'.of = o /\ walk'.live = TRUE /\ walk'.start = list[o] /\ walk'.yielded = <<>>
      /\ walk' \in Walks
  <2>1. walk' = [of |-> o, live |-> TRUE, array |-> <<>>, start |-> list[o], yielded |-> <<>>,
                 sorted |-> FALSE]
    BY <1>1 DEF NoWalk
  <2>2. <<>> \in Seq(Entries)
    OBVIOUS
  <2>3. walk' \in Walks
    BY <1>3, <2>1, <2>2 DEF Walks
  <2> QED
    BY <2>1, <2>3
<1>5. Walked' = list[o]
  BY <1>1, <1>4 DEF Walked
<1>6. \A i, j \in 1 .. Len(list[o]) : list[o][i] = list[o][j] => i = j
  BY <1>2 DEF ListsInv, ArraysInv, Disjoint
<1>7. StartsWith(list[o], list[o]) /\ StartsWith(<<>>, list[o])
  <2>1. Len(<<>>) = 0 /\ 1 .. Len(<<>>) = {}
    OBVIOUS
  <2> QED
    BY <1>2, <2>1 DEF StartsWith
<1>8. OnItsWay'
  BY <1>4, <1>5, <1>6, <1>7 DEF OnItsWay
<1>9. WalkInv'
  BY <1>1, <1>4, <1>8 DEF WalkInv
<1>10. ListsInv'
  BY <1>1, <1>9 DEF ListsInv, ArraysInv, Disjoint
<1> QED
  BY <1>1, <1>10, NoLoopMet

LEMMA WalkStepsStep ==
  ASSUME ListsInv, WalkSteps
  PROVE  ListsInv' /\ LoopMet /\ UNCHANGED <<class, list, entry>>
<1> DEFINE n == Len(walk.yielded)
<1>1. /\ walk # NoWalk /\ class' = class /\ list' = list /\ entry' = entry
      /\ walk' = IF n < Len(Walked) THEN [walk EXCEPT !.yielded = Append(@, Walked[n + 1])] ELSE NoWalk
  BY DEF WalkSteps, Walked
<1>2. walk \in Walks /\ (walk.live => walk.of \in Objects /\ class[walk.of] # "none")
  BY DEF ListsInv, WalkInv
<1>3. Walked \in Seq(Entries)
  <2>1. CASE walk.live
    <3>1. list[walk.of] \in Seq(1 .. Len(entry)) /\ 1 .. Len(entry) \subseteq Entries
      BY <1>2, <2>1, LengthOfEntry DEF Entries
    <3> QED
      BY <2>1, <3>1, SeqWidens DEF Walked
  <2>2. CASE ~walk.live
    BY <1>2, <2>2 DEF Walked, Walks
  <2> QED
    BY <2>1, <2>2
<1>4. /\ walk.yielded \in Seq(Entries) /\ walk.start \in Seq(Entries) /\ n \in Nat
      /\ Len(Walked) \in Nat
  BY <1>2, <1>3 DEF Walks
<1>5. ~walk.sorted => OnItsWay
  BY DEF ListsInv, WalkInv
<1>6. CASE n < Len(Walked)
  <2> DEFINE yielded == Append(walk.yielded, Walked[n + 1])
  <2>1. Walked[n + 1] \in Entries
    BY <1>3, <1>4, <1>6
  <2>2. /\ yielded \in Seq(Entries) /\ Len(yielded) = n + 1 /\ yielded[n + 1] = Walked[n + 1]
        /\ \A i \in 1 .. n : yielded[i] = walk.yielded[i]
    BY <1>4, <2>1
  <2> HIDE DEF yielded
  <2>3. walk' = [walk EXCEPT !.yielded = yielded]
    BY <1>1, <1>6 DEF yielded
  <2>4. /\ walk' \in Walks /\ walk'.yielded = yielded /\ walk'.start = walk.start
        /\ walk'.live = walk.live /\ walk'.of = walk.of /\ walk'.array = walk.array
        /\ walk'.sorted = walk.sorted
    BY <1>2, <2>2, <2>3 DEF Walks
  <2>5. Walked' = Walked
    BY <1>1, <2>4 DEF Walked
  <2>6. ASSUME StartsWith(walk.yielded, Walked) PROVE StartsWith(yielded, Walked)
    <3>1. \A i \in 1 .. n : yielded[i] = Walked[i]
      BY <2>2, <2>6 DEF StartsWith
    <3>2. \A i \in 1 .. n + 1 : i \in 1 .. n \/ i = n + 1
      BY <1>4
    <3>3. n + 1 <= Len(Walked)
      BY <1>4, <1>6
    <3> QED
      BY <2>2, <3>1, <3>2, <3>3 DEF StartsWith
  <2>7. OnItsWay => OnItsWay'
    BY <2>4, <2>5, <2>6 DEF OnItsWay
  <2>8. WalkInv'
    BY <1>1, <1>2, <1>5, <2>4, <2>7 DEF WalkInv
  <2>9. walk' # NoWalk
    <3>1. NoWalk.yielded = <<>> /\ Len(<<>>) = 0
      BY DEF NoWalk
    <3> QED
      BY <1>4, <2>2, <2>4, <3>1
  <2> QED
    BY <1>1, <2>8, <2>9 DEF ListsInv, ArraysInv, Disjoint, LoopMet
<1>7. CASE ~ (n < Len(Walked))
  <2>1. walk' = NoWalk
    BY <1>1, <1>7
  <2>2. /\ walk'.live = FALSE /\ walk'.array = <<>> /\ walk'.start = <<>> /\ walk'.yielded = <<>>
        /\ walk' \in Walks
    BY <2>1 DEF NoWalk, Walks
  <2>3. OnItsWay'
    <3>1. Len(<<>>) = 0 /\ 1 .. Len(<<>>) = {}
      OBVIOUS
    <3> QED
      BY <2>2, <3>1 DEF OnItsWay, Walked, StartsWith
  <2>4. WalkInv'
    BY <2>2, <2>3 DEF WalkInv
  <2>5. ASSUME ~walk.sorted
        PROVE  IsPrefix(walk.start, walk.yielded) /\ IsInjective(walk.yielded)
    <3>1. /\ StartsWith(walk.start, Walked) /\ StartsWith(walk.yielded, Walked)
          /\ \A i, j \in 1 .. Len(Walked) : Walked[i] = Walked[j] => i = j
      BY <1>5, <2>5 DEF OnItsWay
    <3>2. n = Len(Walked)
      BY <1>4, <1>7, <3>1 DEF StartsWith
    <3>3. walk.yielded = Walked
      BY <1>3, <1>4, <3>1, <3>2, SeqEqual DEF StartsWith
    <3>4. IsPrefix(walk.start, walk.yielded)
      BY <1>4, <3>1, <3>3, IsPrefixFacts
    <3>5. DOMAIN walk.yielded = 1 .. Len(Walked)
      BY <1>3, <3>3
    <3> QED
      BY <3>1, <3>3, <3>4, <3>5 DEF IsInjective
  <2> QED
    BY <1>1, <2>4, <2>5 DEF ListsInv, ArraysInv, Disjoint, LoopMet
<1> QED
  BY <1>6, <1>7

-----------------------------------------------------------------------------
(* The URLs.                                                                *)

UrlRecords == [opaque : BOOLEAN, host : Hosts \cup {Invalid}, port : Ports \cup {NoPort},
               path : 0 .. 1, query : Seq(Pairs), hash : 0 .. 1]

IsUrl(p) ==
  /\ p \in UrlRecords
  /\ IF p.opaque THEN p.host = Invalid /\ p.port = NoPort /\ p.path = 0 ELSE p.host \in Hosts

PartsInv ==
  /\ parts = [u \in Urls |-> parts[u]] /\ params \in [Urls -> Objects \cup {NoObject}]
  /\ \A u \in Urls : (parts[u] = <<>> /\ params[u] = NoObject) \/ IsUrl(parts[u])

\* The parameters of a URL are its own and list its query.
LinkInv ==
  /\ \A u, v \in Urls : u # v /\ params[u] # NoObject => params[u] # params[v]
  /\ \A u \in Urls : params[u] # NoObject => class[params[u]] = "URLSearchParams"
  /\ LinkAgrees

UrlInv == ListsInv /\ PartsInv /\ LinkInv

LEMMA IsUrlFacts ==
  ASSUME NEW p, IsUrl(p)
  PROVE  /\ p # <<>> /\ p.query \in Seq(Pairs)
         /\ \E base \in Opaque \cup Based : p = With(base, p.query, p.hash)
<1> DEFINE base == [opaque |-> p.opaque, host |-> p.host, port |-> p.port, path |-> p.path]
<1>1. p \in UrlRecords
  BY DEF IsUrl
<1>2. base \in Opaque \cup Based
  <2>1. CASE p.opaque
    BY <1>1, <2>1 DEF IsUrl, Opaque, UrlRecords
  <2>2. CASE ~p.opaque
    BY <1>1, <2>2 DEF IsUrl, Based, UrlRecords
  <2> QED
    BY <2>1, <2>2
<1>3. p = With(base, p.query, p.hash)
  BY <1>1 DEF With, UrlRecords
<1>4. p # <<>>
  <2>1. DOMAIN p = {"opaque", "host", "port", "path", "query", "hash"}
    BY <1>1 DEF UrlRecords
  <2>2. DOMAIN <<>> = {}
    OBVIOUS
  <2> QED
    BY <2>1, <2>2
<1>5. p.query \in Seq(Pairs)
  BY <1>1 DEF UrlRecords
<1> HIDE DEF base
<1> QED
  BY <1>2, <1>3, <1>4, <1>5

LEMMA WithIsUrl ==
  ASSUME NEW base \in Opaque \cup Based, NEW query \in Seq(Pairs), NEW hash \in 0 .. 1
  PROVE  IsUrl(With(base, query, hash)) /\ With(base, query, hash).query = query
<1>1. CASE base \in Opaque
  <2> DEFINE p == With(base, query, hash)
  <2>1. base.opaque = TRUE /\ base.host = Invalid /\ base.port = NoPort /\ base.path = 0
    BY <1>1 DEF Opaque
  <2>2. p = [opaque |-> TRUE, host |-> Invalid, port |-> NoPort, path |-> 0, query |-> query,
             hash |-> hash]
    BY <2>1 DEF With
  <2>3. 0 \in 0 .. 1
    OBVIOUS
  <2> HIDE DEF p
  <2> QED
    BY <2>2, <2>3 DEF IsUrl, UrlRecords, p
<1>2. CASE base \in Based
  BY <1>2 DEF Based, With, IsUrl, UrlRecords
<1> QED
  BY <1>1, <1>2

LEMMA GivenIsPairs == Given \subseteq Seq(Pairs)
<1>1. ASSUME NEW q \in Given PROVE q \in Seq(Pairs)
  <2>1. PICK m \in 0 .. MaxQuery : q \in [1 .. m -> Pairs]
    BY DEF Given, BoundedSeq, SeqOf
  <2>2. m \in Nat
    BY UrlAssumption
  <2> QED
    BY <2>1, <2>2
<1> QED
  BY <1>1

LEMMA QueryIsPairs == Query \subseteq Seq(Pairs)
BY GivenIsPairs DEF Query

\* A step that leaves the parameters of every URL as they are.
LEMMA LinkStays ==
  ASSUME UrlInv, ListsInv',
         \A u \in Urls : params[u] # NoObject
                           => View(params[u])' = View(params[u]) /\ class'[params[u]] = class[params[u]],
         PartsInv', params' = params,
         \A u \in Urls : params[u] # NoObject => parts'[u].query = parts[u].query
  PROVE  UrlInv'
BY DEF UrlInv, LinkInv, LinkAgrees, Encodable

\* A step of an object that is no URL's.
LEMMA OtherKeeps ==
  ASSUME UrlInv, NEW o \in Objects, ListStep(o)
  PROVE  /\ ListsInv' /\ LoopMet
         /\ \A p \in Objects \ {o} : View(p)' = View(p)
<1>1. ListsInv /\ ArraysInv
  BY DEF UrlInv, ListsInv
<1>2. PICK base : OwnStep(o, base)
  BY DEF ListStep
<1> QED
  BY <1>1, <1>2, OwnStepKeeps, ListStepKeepsWalk

LEMMA ConstructorStep ==
  ASSUME UrlInv, NEW o \in Objects, Constructor(o)
  PROVE  UrlInv' /\ LoopMet
<1>1. ListsInv
  BY DEF UrlInv
<1>2. ASSUME NEW c \in Classes, NEW pairs \in Seq(Pairs), Construct(o, c, pairs)
      PROVE  UrlInv' /\ LoopMet
  <2>1. ListStep(o) /\ class[o] = "none" /\ class' = [class EXCEPT ![o] = c]
    BY <1>1, <1>2, ConstructStep
  <2>2. ListsInv' /\ LoopMet /\ \A p \in Objects \ {o} : View(p)' = View(p)
    BY <2>1, OtherKeeps
  <2>3. parts' = parts /\ params' = params
    BY DEF Constructor
  <2>4. \A u \in Urls : params[u] # NoObject => params[u] \in Objects \ {o}
    BY <2>1 DEF UrlInv, PartsInv, LinkInv
  <2>5. \A p \in Objects \ {o} : class'[p] = class[p]
    BY <1>1, <2>1 DEF ListsInv
  <2>6. PartsInv'
    BY <2>3 DEF UrlInv, PartsInv
  <2> QED
    BY <2>2, <2>3, <2>4, <2>5, <2>6, LinkStays
<1>3. ASSUME NEW from \in Objects, Copy(o, from) PROVE UrlInv' /\ LoopMet
  <2>1. View(from) \in Seq(Pairs) /\ class[from] \in Classes
    BY <1>1, <1>3, ViewOfPairs DEF Copy, Classes
  <2> QED
    BY <1>2, <1>3, <2>1 DEF Copy
<1> QED
  BY <1>2, <1>3, GivenIsPairs DEF Constructor

LEMMA CallMethodStep ==
  ASSUME UrlInv, NEW o \in Objects, CallMethod(o)
  PROVE  UrlInv' /\ LoopMet
<1>1. ListsInv /\ PartsInv /\ LinkInv
  BY DEF UrlInv
<1>2. ListStep(o) /\ class' = class /\ class[o] # "none"
  BY <1>1, MethodStep DEF CallMethod
<1>3. ListsInv' /\ LoopMet /\ \A p \in Objects \ {o} : View(p)' = View(p)
  BY <1>2, OtherKeeps
<1>4. params' = params
  BY DEF CallMethod
<1>5. CASE class[o] # "URLSearchParams"
  <2>1. parts' = parts
    BY <1>5 DEF CallMethod
  <2>2. \A u \in Urls : params[u] # NoObject => params[u] \in Objects \ {o}
    BY <1>1, <1>5 DEF PartsInv, LinkInv
  <2>3. PartsInv'
    BY <1>1, <1>4, <2>1 DEF PartsInv
  <2> QED
    BY <1>2, <1>3, <1>4, <2>1, <2>2, <2>3, LinkStays
<1>6. CASE class[o] = "URLSearchParams"
  <2> DEFINE query == View(o)'
  <2>1. query \in Seq(Pairs)
    <3>1. entry' \in Seq(Pairs) /\ list'[o] \in Seq(1 .. Len(entry')) /\ Len(entry') \in Nat
      BY <1>3 DEF ListsInv, ArraysInv
    <3>2. \A i \in 1 .. Len(list'[o]) : entry'[list'[o][i]] \in Pairs
      BY <3>1
    <3>3. DOMAIN list'[o] = 1 .. Len(list'[o]) /\ Len(list'[o]) \in Nat
      BY <3>1
    <3> QED
      BY <3>2, <3>3 DEF View
  <2>2. parts' = [u \in Urls |-> IF params[u] = o /\ Encodable(query)
                                 THEN [parts[u] EXCEPT !.query = query] ELSE parts[u]]
    BY <1>6 DEF CallMethod, Update
  <2> HIDE DEF query
  <2>3. ASSUME NEW u \in Urls, params[u] = o, Encodable(query)
        PROVE  IsUrl(parts'[u]) /\ parts'[u].query = query
    <3>1. IsUrl(parts[u])
      <4>1. params[u] # NoObject
        BY <2>3, ListsAssumption
      <4> QED
        BY <1>1, <4>1 DEF PartsInv
    <3>2. parts'[u] = [parts[u] EXCEPT !.query = query]
      BY <2>2, <2>3
    <3> QED
      BY <2>1, <3>1, <3>2 DEF IsUrl, UrlRecords
  <2>4. \A u \in Urls : params[u] # o \/ ~Encodable(query) => parts'[u] = parts[u]
    BY <2>2
  <2>5. PartsInv'
    <3>1. parts' = [u \in Urls |-> parts'[u]]
      BY <2>2
    <3> QED
      BY <1>1, <1>4, <2>3, <2>4, <3>1 DEF PartsInv
  <2>6. ASSUME NEW u \in Urls, params[u] # NoObject, Encodable(View(params[u]))'
        PROVE  View(params[u])' = parts'[u].query
    <3>1. CASE params[u] = o
      <4>1. View(params[u])' = query
        BY <1>4, <3>1 DEF query
      <4>2. Encodable(query)
        BY <2>6, <4>1 DEF Encodable
      <4> QED
        BY <2>3, <3>1, <4>1, <4>2
    <3>2. CASE params[u] # o
      <4>1. params[u] \in Objects \ {o}
        BY <1>1, <2>6, <3>2 DEF PartsInv
      <4>2. View(params[u])' = View(params[u])
        BY <1>3, <1>4, <4>1
      <4>3. Encodable(View(params[u]))
        BY <2>6, <4>2 DEF Encodable
      <4> QED
        BY <1>1, <2>4, <2>6, <3>2, <4>2, <4>3 DEF LinkInv, LinkAgrees
    <3> QED
      BY <3>1, <3>2
  <2>7. LinkInv'
    <3>1. LinkAgrees'
      BY <1>4, <2>6 DEF LinkAgrees
    <3> QED
      BY <1>1, <1>2, <1>4, <3>1 DEF LinkInv
  <2> QED
    BY <1>3, <2>5, <2>7 DEF UrlInv
<1> QED
  BY <1>5, <1>6

LEMMA WalkStep ==
  ASSUME UrlInv, Walk
  PROVE  UrlInv' /\ LoopMet
<1>1. ListsInv /\ PartsInv /\ LinkInv
  BY DEF UrlInv
<1>2. ListsInv' /\ LoopMet /\ UNCHANGED <<class, list, entry>> /\ UNCHANGED <<parts, params>>
  BY <1>1, WalkBeginsStep, WalkStepsStep DEF Walk
<1>3. \A p \in Objects : View(p)' = View(p)
  BY <1>2 DEF View
<1>4. PartsInv'
  BY <1>1, <1>2 DEF PartsInv
<1>5. \A u \in Urls : params[u] # NoObject => params[u] \in Objects
  BY <1>1 DEF PartsInv
<1> QED
  BY <1>2, <1>3, <1>4, <1>5, LinkStays

\* href and search: the URL and its parameters are given the same query.
LEMMA ReloadStep ==
  ASSUME UrlInv, NEW u \in Urls, NEW query \in Seq(Pairs), NEW new, IsUrl(new), new.query = query,
         parts' = [parts EXCEPT ![u] = new], Made(u), Reload(u, query), UNCHANGED params
  PROVE  UrlInv' /\ LoopMet
<1>1. ListsInv /\ PartsInv /\ LinkInv
  BY DEF UrlInv
<1>2. parts'[u] = new /\ \A v \in Urls \ {u} : parts'[v] = parts[v]
  BY <1>1 DEF PartsInv
<1>3. PartsInv'
  <2>1. parts' = [v \in Urls |-> parts'[v]]
    BY <1>1 DEF PartsInv
  <2> QED
    BY <1>1, <1>2, <2>1 DEF PartsInv
<1>4. CASE params[u] = NoObject
  <2>1. CASE UNCHANGED listVars
    <3>1. ListsInv' /\ \A p \in Objects : View(p)' = View(p)
      BY <1>1, <2>1 DEF listVars, View, ListsInv, ArraysInv, Disjoint, WalkInv, OnItsWay, Walked
    <3>2. LoopMet
      <4>1. walk' = NoWalk => LoopMet
        BY <2>1, NoLoopMet DEF listVars
      <4> QED
        BY <4>1 DEF LoopMet
    <3>3. class' = class
      BY <2>1 DEF listVars
    <3>4. \A v \in Urls : params[v] # NoObject => params[v] \in Objects /\ parts'[v] = parts[v]
      BY <1>1, <1>2, <1>4 DEF PartsInv
    <3> QED
      BY <1>3, <3>1, <3>2, <3>3, <3>4, LinkStays
  <2> QED
    BY <1>4, <2>1 DEF Reload
<1>5. CASE params[u] # NoObject
  <2>1. PICK o \in Objects : o = params[u]
    BY <1>1, <1>5 DEF PartsInv
  <2>2. Push(query) /\ Replace(o, Pushed(<<>>, Len(query))) /\ class' = class
    BY <1>5, <2>1 DEF Reload
  <2>3. ListStep(o) /\ View(o)' = query
    BY <1>1, <2>1, <2>2, ReplaceAllStep
  <2>4. ListsInv' /\ LoopMet /\ \A p \in Objects \ {o} : View(p)' = View(p)
    BY <2>1, <2>3, OtherKeeps
  <2>5. ASSUME NEW v \in Urls, params[v] # NoObject, Encodable(View(params[v]))'
        PROVE  View(params[v])' = parts'[v].query
    <3>1. CASE v = u
      BY <1>2, <2>1, <2>3, <3>1
    <3>2. CASE v # u
      <4>1. params[v] \in Objects \ {o} /\ parts'[v] = parts[v]
        BY <1>1, <1>2, <1>5, <2>1, <2>5, <3>2 DEF PartsInv, LinkInv
      <4>2. View(params[v])' = View(params[v])
        BY <2>4, <4>1
      <4>3. Encodable(View(params[v]))
        BY <2>5, <4>2 DEF Encodable
      <4> QED
        BY <1>1, <2>5, <4>1, <4>2, <4>3 DEF LinkInv, LinkAgrees
    <3> QED
      BY <3>1, <3>2
  <2>6. LinkInv'
    <3>1. LinkAgrees'
      BY <2>5 DEF LinkAgrees
    <3> QED
      BY <1>1, <2>2, <3>1 DEF LinkInv
  <2> QED
    BY <1>3, <2>4, <2>6 DEF UrlInv
<1> QED
  BY <1>4, <1>5

\* A setter of another part, or a new URL.
LEMMA SetPartStep ==
  ASSUME UrlInv, NEW u \in Urls, NEW new, IsUrl(new), SetPart(u, new),
         params[u] # NoObject => new.query = parts[u].query
  PROVE  UrlInv' /\ LoopMet
<1>1. ListsInv /\ PartsInv /\ LinkInv
  BY DEF UrlInv
<1>2. parts' = [parts EXCEPT ![u] = new] /\ UNCHANGED listVars /\ params' = params
  BY DEF SetPart
<1>3. parts'[u] = new /\ \A v \in Urls \ {u} : parts'[v] = parts[v]
  BY <1>1, <1>2 DEF PartsInv
<1>4. PartsInv'
  <2>1. parts' = [v \in Urls |-> parts'[v]]
    BY <1>1, <1>2 DEF PartsInv
  <2> QED
    BY <1>1, <1>2, <1>3, <2>1 DEF PartsInv
<1>5. ListsInv' /\ class' = class /\ \A p \in Objects : View(p)' = View(p)
  BY <1>1, <1>2 DEF listVars, View, ListsInv, ArraysInv, Disjoint, WalkInv, OnItsWay, Walked
<1>6. LoopMet
  <2>1. walk' = NoWalk => LoopMet
    BY <1>2, NoLoopMet DEF listVars
  <2> QED
    BY <2>1 DEF LoopMet
<1>7. \A v \in Urls : params[v] # NoObject => params[v] \in Objects /\ parts'[v].query = parts[v].query
  BY <1>1, <1>3 DEF PartsInv
<1> QED
  BY <1>2, <1>4, <1>5, <1>6, <1>7, LinkStays

LEMMA UrlLoadsStep ==
  ASSUME UrlInv, NEW u \in Urls, UrlLoads(u)
  PROVE  UrlInv' /\ LoopMet
<1>1. PartsInv
  BY DEF UrlInv
<1>2. PICK query \in Query :
        \/ \E base \in Opaque \cup Based, hash \in 0 .. 1 :
             LET new == With(base, query, hash) IN NewUrl(u, new) \/ SetHref(u, new)
        \/ SetSearch(u, query)
  BY DEF UrlLoads
<1>3. query \in Seq(Pairs)
  BY QueryIsPairs
<1>4. ASSUME NEW base \in Opaque \cup Based, NEW hash \in 0 .. 1, NewUrl(u, With(base, query, hash))
      PROVE  UrlInv' /\ LoopMet
  <2> DEFINE new == With(base, query, hash)
  <2>1. IsUrl(new)
    BY <1>3, WithIsUrl
  <2>2. SetPart(u, new) /\ parts[u] = <<>>
    BY <1>4 DEF NewUrl, SetPart, Made
  <2> HIDE DEF new
  <2>3. params[u] = NoObject
    BY <1>1, <2>2, IsUrlFacts DEF PartsInv
  <2> QED
    BY <2>1, <2>2, <2>3, SetPartStep
<1>5. ASSUME NEW base \in Opaque \cup Based, NEW hash \in 0 .. 1, SetHref(u, With(base, query, hash))
      PROVE  UrlInv' /\ LoopMet
  <2> DEFINE new == With(base, query, hash)
  <2>1. IsUrl(new) /\ new.query = query
    BY <1>3, WithIsUrl
  <2>2. /\ Made(u) /\ parts' = [parts EXCEPT ![u] = new] /\ Reload(u, new.query)
        /\ UNCHANGED params
    BY <1>5 DEF SetHref
  <2> HIDE DEF new
  <2> QED
    BY <1>3, <2>1, <2>2, ReloadStep
<1>6. CASE SetSearch(u, query)
  <2> DEFINE new == [parts[u] EXCEPT !.query = query]
  <2>1. /\ Made(u) /\ parts' = [parts EXCEPT ![u] = new] /\ Reload(u, query)
        /\ UNCHANGED params
    BY <1>6 DEF SetSearch
  <2>2. IsUrl(parts[u])
    BY <1>1, <2>1 DEF PartsInv, Made
  <2>3. IsUrl(new) /\ new.query = query
    BY <1>3, <2>2 DEF IsUrl, UrlRecords
  <2> HIDE DEF new
  <2> QED
    BY <1>3, <2>1, <2>3, ReloadStep
<1> QED
  BY <1>2, <1>4, <1>5, <1>6

LEMMA SetOtherStep ==
  ASSUME UrlInv, NEW u \in Urls, SetOther(u)
  PROVE  UrlInv' /\ LoopMet
<1> DEFINE p == parts[u]
<1>1. Made(u)
  <2>1. CASE \E host \in Hosts \cup {Invalid} : SetHostname(u, host)
    BY <2>1 DEF SetHostname
  <2>2. CASE \E host \in Hosts \cup {Invalid}, port \in Ports \cup {Invalid} : SetHost(u, host, port)
    BY <2>2 DEF SetHost
  <2>3. CASE \E port \in Ports \cup {NoPort, Invalid} : SetPort(u, port)
    BY <2>3 DEF SetPort
  <2>4. CASE \E n \in 0 .. 1 : SetPath(u, n) \/ SetHash(u, n)
    BY <2>4 DEF SetPath, SetHash
  <2> QED
    BY <2>1, <2>2, <2>3, <2>4 DEF SetOther
<1>2. IsUrl(p)
  BY <1>1 DEF UrlInv, PartsInv, Made
<1>3. ASSUME NEW new, SetPart(u, new), IsUrl(new), new.query = p.query PROVE UrlInv' /\ LoopMet
  BY <1>3, SetPartStep
<1>4. CASE SetPart(u, p)
  BY <1>2, <1>3, <1>4
<1>5. ASSUME NEW host \in Hosts \cup {Invalid}, SetHostname(u, host) PROVE UrlInv' /\ LoopMet
  <2>1. CASE ~ (p.opaque \/ host = Invalid)
    <3> DEFINE new == [p EXCEPT !.host = host]
    <3>1. SetPart(u, new)
      BY <1>5, <2>1 DEF SetHostname
    <3>2. IsUrl(new) /\ new.query = p.query
      BY <1>2, <2>1 DEF IsUrl, UrlRecords
    <3> HIDE DEF new
    <3> QED
      BY <1>3, <3>1, <3>2
  <2> QED
    BY <1>4, <1>5, <2>1 DEF SetHostname
<1>6. ASSUME NEW host \in Hosts \cup {Invalid}, NEW port \in Ports \cup {Invalid},
             SetHost(u, host, port)
      PROVE  UrlInv' /\ LoopMet
  <2>1. CASE ~ (p.opaque \/ host = Invalid)
    <3> DEFINE to == IF port = Invalid THEN NoPort ELSE port
               new == [p EXCEPT !.host = host, !.port = to]
    <3>1. SetPart(u, new)
      BY <1>6, <2>1 DEF SetHost
    <3>2. to \in Ports \cup {NoPort}
      OBVIOUS
    <3> HIDE DEF to
    <3>3. IsUrl(new) /\ new.query = p.query
      BY <1>2, <2>1, <3>2 DEF IsUrl, UrlRecords
    <3> HIDE DEF new
    <3> QED
      BY <1>3, <3>1, <3>3
  <2> QED
    BY <1>4, <1>6, <2>1 DEF SetHost
<1>7. ASSUME NEW port \in Ports \cup {NoPort, Invalid}, SetPort(u, port) PROVE UrlInv' /\ LoopMet
  <2>1. CASE ~ (p.opaque \/ port = Invalid)
    <3> DEFINE new == [p EXCEPT !.port = port]
    <3>1. SetPart(u, new)
      BY <1>7, <2>1 DEF SetPort
    <3>2. IsUrl(new) /\ new.query = p.query
      BY <1>2, <2>1 DEF IsUrl, UrlRecords
    <3> HIDE DEF new
    <3> QED
      BY <1>3, <3>1, <3>2
  <2> QED
    BY <1>4, <1>7, <2>1 DEF SetPort
<1>8. ASSUME NEW n \in 0 .. 1, SetPath(u, n) PROVE UrlInv' /\ LoopMet
  <2>1. CASE ~p.opaque
    <3> DEFINE new == [p EXCEPT !.path = n]
    <3>1. SetPart(u, new)
      BY <1>8, <2>1 DEF SetPath
    <3>2. IsUrl(new) /\ new.query = p.query
      BY <1>2, <2>1 DEF IsUrl, UrlRecords
    <3> HIDE DEF new
    <3> QED
      BY <1>3, <3>1, <3>2
  <2> QED
    BY <1>4, <1>8, <2>1 DEF SetPath
<1>9. ASSUME NEW n \in 0 .. 1, SetHash(u, n) PROVE UrlInv' /\ LoopMet
  <2> DEFINE new == [p EXCEPT !.hash = n]
  <2>1. SetPart(u, new)
    BY <1>9 DEF SetHash
  <2>2. IsUrl(new) /\ new.query = p.query
    BY <1>2 DEF IsUrl, UrlRecords
  <2> HIDE DEF new
  <2> QED
    BY <1>3, <2>1, <2>2
<1> QED
  BY <1>5, <1>6, <1>7, <1>8, <1>9 DEF SetOther

LEMMA SearchParamsStep ==
  ASSUME UrlInv, NEW u \in Urls, NEW o \in Objects, SearchParams(u, o)
  PROVE  UrlInv' /\ LoopMet
<1>1. ListsInv /\ PartsInv /\ LinkInv
  BY DEF UrlInv
<1>2. /\ Made(u) /\ params[u] = NoObject /\ Construct(o, "URLSearchParams", parts[u].query)
      /\ params' = [params EXCEPT ![u] = o] /\ parts' = parts
  BY DEF SearchParams
<1>3. IsUrl(parts[u])
  BY <1>1, <1>2 DEF PartsInv, Made
<1>4. parts[u].query \in Seq(Pairs) /\ "URLSearchParams" \in Classes
  BY <1>3, IsUrlFacts DEF Classes
<1>5. /\ ListStep(o) /\ class[o] = "none" /\ class' = [class EXCEPT ![o] = "URLSearchParams"]
      /\ View(o)' = parts[u].query
  BY <1>1, <1>2, <1>4, ConstructStep
<1>6. ListsInv' /\ LoopMet /\ \A p \in Objects \ {o} : View(p)' = View(p)
  BY <1>5, OtherKeeps
<1>7. /\ params'[u] = o /\ \A v \in Urls \ {u} : params'[v] = params[v]
      /\ params' \in [Urls -> Objects \cup {NoObject}]
  BY <1>1, <1>2 DEF PartsInv
<1>8. \A v \in Urls : params[v] # NoObject => params[v] \in Objects \ {o}
  BY <1>1, <1>5 DEF PartsInv, LinkInv
<1>9. PartsInv'
  BY <1>1, <1>2, <1>3, <1>7 DEF PartsInv
<1>10. ASSUME NEW v \in Urls, params'[v] # NoObject
       PROVE  /\ Encodable(View(params[v]))' => View(params[v])' = parts'[v].query
              /\ class'[params'[v]] = "URLSearchParams"
  <2>1. CASE v = u
    BY <1>1, <1>2, <1>5, <1>7, <2>1 DEF ListsInv
  <2>2. CASE v # u
    <3>1. params'[v] = params[v] /\ params[v] \in Objects \ {o}
      BY <1>7, <1>8, <1>10, <2>2
    <3>2. class'[params[v]] = "URLSearchParams"
      BY <1>1, <1>5, <1>10, <3>1 DEF ListsInv, LinkInv
    <3>3. View(params[v])' = View(params[v])
      BY <1>6, <3>1
    <3>4. Encodable(View(params[v]))' => Encodable(View(params[v]))
      BY <3>3 DEF Encodable
    <3> QED
      BY <1>1, <1>2, <1>10, <3>1, <3>2, <3>3, <3>4 DEF LinkInv, LinkAgrees
  <2> QED
    BY <2>1, <2>2
<1>11. ASSUME NEW v \in Urls, NEW w \in Urls, v # w, params'[v] # NoObject
       PROVE  params'[v] # params'[w]
  BY <1>1, <1>7, <1>8, <1>11, ListsAssumption DEF LinkInv
<1>12. LinkInv'
  BY <1>10, <1>11 DEF LinkInv, LinkAgrees
<1> QED
  BY <1>6, <1>9, <1>12 DEF UrlInv

-----------------------------------------------------------------------------
LEMMA UrlInvInit == UrlInit => UrlInv
<1> SUFFICES ASSUME UrlInit PROVE UrlInv
  OBVIOUS
<1>1. /\ class = [o \in Objects |-> "none"] /\ list = [o \in Objects |-> <<>>] /\ entry = <<>>
      /\ walk = NoWalk /\ parts = [u \in Urls |-> <<>>] /\ params = [u \in Urls |-> NoObject]
  BY DEF UrlInit, ListsInit
<1>2. ArraysInv
  <2>1. entry \in Seq(Pairs) /\ Len(entry) = 0 /\ MaxEntries \in Nat
    BY <1>1, ListsAssumption
  <2>2. <<>> \in Seq(1 .. Len(entry)) /\ DOMAIN <<>> = {}
    BY <2>1
  <2> QED
    BY <1>1, <2>1, <2>2 DEF ArraysInv, Disjoint
<1>3. WalkInv
  <2>1. walk \in Walks /\ walk.live = FALSE
    <3>1. <<>> \in Seq(Entries)
      OBVIOUS
    <3> QED
      BY <1>1, <3>1 DEF NoWalk, Walks
  <2>2. OnItsWay
    <3>1. Len(<<>>) = 0 /\ 1 .. Len(<<>>) = {}
      OBVIOUS
    <3> QED
      BY <1>1, <3>1 DEF OnItsWay, Walked, StartsWith, NoWalk
  <2> QED
    BY <2>1, <2>2 DEF WalkInv
<1>4. ListsInv
  BY <1>1, <1>2, <1>3 DEF ListsInv, Classed
<1>5. PartsInv /\ LinkInv
  BY <1>1 DEF PartsInv, LinkInv, LinkAgrees
<1> QED
  BY <1>4, <1>5 DEF UrlInv

LEMMA UrlInvStep == UrlInv /\ [UrlNext]_urlVars => UrlInv' /\ [LoopMet]_listVars
<1> SUFFICES ASSUME UrlInv, [UrlNext]_urlVars PROVE UrlInv' /\ [LoopMet]_listVars
  OBVIOUS
<1>1. CASE UNCHANGED urlVars
  <2>1. UNCHANGED listVars /\ parts' = parts /\ params' = params
    BY <1>1 DEF urlVars
  <2>2. ListsInv' /\ class' = class /\ \A p \in Objects : View(p)' = View(p)
    BY <2>1 DEF UrlInv, listVars, View, ListsInv, ArraysInv, Disjoint, WalkInv, OnItsWay, Walked
  <2>3. PartsInv'
    BY <2>1 DEF UrlInv, PartsInv
  <2>4. \A u \in Urls : params[u] # NoObject => params[u] \in Objects
    BY DEF UrlInv, PartsInv
  <2> QED
    BY <2>1, <2>2, <2>3, <2>4, LinkStays
<1>2. CASE UrlNext
  BY <1>2, ConstructorStep, CallMethodStep, WalkStep, UrlLoadsStep, SetOtherStep, SearchParamsStep
     DEF UrlNext
<1> QED
  BY <1>1, <1>2

LEMMA UrlInvariant == UrlSpec => []UrlInv
BY UrlInvInit, UrlInvStep, PTL DEF UrlSpec

\* Arrays and entries are what the list classes take them for: no entry is in two
\* arrays that objects hold, nor twice in one; the parameters of a URL are a
\* URLSearchParams of its own (src/worker.rs, src/runtime/url.rs).
THEOREM UrlTypeCorrect == UrlSpec => [](ListsTypeOK /\ UrlTypeOK)
<1>1. UrlInv => ListsTypeOK /\ UrlTypeOK
  <2> SUFFICES ASSUME UrlInv PROVE ListsTypeOK /\ UrlTypeOK
    OBVIOUS
  <2>1. ListsTypeOK
    BY DEF UrlInv, ListsInv, ArraysInv, Disjoint, WalkInv, Walks, Classed, ListsTypeOK
  <2>2. UrlTypeOK
    <3>1. \A u \in Urls : IsUrl(parts[u]) =>
            \E base \in Opaque \cup Based : parts[u] = With(base, parts[u].query, parts[u].hash)
      BY IsUrlFacts
    <3> QED
      BY <3>1 DEF UrlInv, PartsInv, LinkInv, UrlTypeOK
  <2> QED
    BY <2>1, <2>2
<1> QED
  BY <1>1, UrlInvariant, PTL

\* url.searchParams lists the query of url.href, whichever side was written last, as
\* long as the list has a serialization: the two write to each other, no other object
\* has an entry of theirs, and what a method that threw left apart, a later one joins.
THEOREM UrlLinkAgrees == UrlSpec => []LinkAgrees
<1>1. UrlInv => LinkAgrees
  BY DEF UrlInv, LinkInv
<1> QED
  BY <1>1, UrlInvariant, PTL

\* A for-of loop over the pairs of an object meets every pair that was there when it
\* began, once and in order, unless the parameters are sorted under it: methods
\* replace the array the loop has, or add at its end.
THEOREM ListLoopsMeetAll == UrlSpec => LoopMeetsAll
<1>1. LoopMet <=> (walk' = NoWalk /\ ~walk.sorted =>
                     IsPrefix(walk.start, walk.yielded) /\ IsInjective(walk.yielded))
  BY DEF LoopMet
<1>2. UrlInv /\ [UrlNext]_urlVars => [LoopMet]_listVars
  BY UrlInvStep
<1>3. UrlSpec => [][LoopMet]_listVars
  BY <1>2, UrlInvariant, PTL DEF UrlSpec
<1> QED
  BY <1>3, PTL DEF LoopMeetsAll, LoopMet

-----------------------------------------------------------------------------
(* Url implements PairLists.                                                *)

LEMMA PromiseDefs ==
  /\ Promise!Names = Names /\ Promise!Pairs = Pairs
  /\ \A array, S : Promise!Filtered(array, S) = Filtered(array, S)
  /\ \A S : Promise!Min(S) = Min(S)
<1>1. Promise!Names = Names /\ Promise!Pairs = Pairs
  BY DEF Promise!Names, Promise!Pairs, Promise!ToSet, Names, Pairs, ToSet
<1>2. \A array, S : Promise!Filtered(array, S) = Filtered(array, S)
  BY DEF Promise!Filtered, Filtered
<1>3. \A S : Promise!Min(S) = Min(S)
  BY DEF Promise!Min, Min
<1> QED
  BY <1>1, <1>2, <1>3

\* The pairs of an array.
Show(array) == [i \in DOMAIN array |-> entry[array[i]]]

LEMMA ShowFacts ==
  ASSUME ListsInv, NEW array \in Seq(1 .. Len(entry))
  PROVE  /\ Show(array) \in Seq(Pairs) /\ Len(Show(array)) = Len(array)
         /\ DOMAIN Show(array) = 1 .. Len(array)
         /\ \A i \in 1 .. Len(array) : array[i] \in 1 .. Len(entry) /\ Show(array)[i] = entry[array[i]]
<1>1. entry \in Seq(Pairs) /\ Len(entry) \in Nat
  BY LengthOfEntry
<1>2. DOMAIN array = 1 .. Len(array) /\ Len(array) \in Nat
  OBVIOUS
<1>3. \A i \in 1 .. Len(array) : array[i] \in 1 .. Len(entry) /\ entry[array[i]] \in Pairs
  BY <1>1
<1>4. Show(array) = [i \in 1 .. Len(array) |-> entry[array[i]]]
  BY <1>2 DEF Show
<1>5. Show(array) \in Seq(Pairs) /\ Len(Show(array)) = Len(array)
  BY <1>2, <1>3, <1>4
<1> QED
  BY <1>3, <1>4, <1>5

LEMMA ViewFacts ==
  ASSUME ListsInv, NEW o \in Objects
  PROVE  /\ View(o) = Show(list[o]) /\ list[o] \in Seq(1 .. Len(entry))
         /\ View(o) \in Seq(Pairs) /\ Len(View(o)) = Len(list[o])
         /\ DOMAIN View(o) = 1 .. Len(list[o])
         /\ \A i \in 1 .. Len(list[o]) :
              list[o][i] \in 1 .. Len(entry) /\ View(o)[i] = entry[list[o][i]]
<1>1. list[o] \in Seq(1 .. Len(entry)) /\ View(o) = Show(list[o])
  BY LengthOfEntry DEF View, Show
<1> QED
  BY <1>1, ShowFacts

\* One new entry at the end.
LEMMA ShowPushed ==
  ASSUME ListsInv, NEW o \in Objects, NEW base \in Seq(1 .. Len(entry)), NEW pair \in Pairs,
         Push(<<pair>>), list' = [list EXCEPT ![o] = Pushed(base, 1)]
  PROVE  View(o)' = Append(Show(base), pair)
<1> DEFINE new == Pushed(base, 1)
<1>1. entry' = entry \o <<pair>> /\ list'[o] = new
  BY DEF Push, ListsInv, ArraysInv
<1>2. Len(entry) \in Nat /\ entry \in Seq(Pairs) /\ Len(base) \in Nat
  BY LengthOfEntry
<1>3. /\ new \in Seq(1 .. Len(entry) + 1) /\ Len(new) = Len(base) + 1
      /\ \A k \in 1 .. Len(base) : new[k] = base[k]
      /\ \A k \in Len(base) + 1 .. Len(base) + 1 : new[k] = Len(entry) + (k - Len(base))
  BY <1>2, PushedFacts
<1> HIDE DEF new
<1>4. new[Len(base) + 1] = Len(entry) + 1 /\ DOMAIN new = 1 .. Len(base) + 1
  BY <1>2, <1>3
<1>5. /\ \A e \in 1 .. Len(entry) : entry'[e] = entry[e]
      /\ entry'[Len(entry) + 1] = pair
  BY <1>1, <1>2
<1>6. /\ Show(base) \in Seq(Pairs) /\ Len(Show(base)) = Len(base)
      /\ \A i \in 1 .. Len(base) : base[i] \in 1 .. Len(entry) /\ Show(base)[i] = entry[base[i]]
  BY ShowFacts
<1>7. /\ Append(Show(base), pair) \in Seq(Pairs)
      /\ Len(Append(Show(base), pair)) = Len(base) + 1
      /\ Append(Show(base), pair)[Len(base) + 1] = pair
      /\ \A i \in 1 .. Len(base) : Append(Show(base), pair)[i] = Show(base)[i]
  BY <1>2, <1>6
<1>8. \A i \in 1 .. Len(base) + 1 : i \in 1 .. Len(base) \/ i = Len(base) + 1
  BY <1>2
<1>9. ASSUME NEW i \in 1 .. Len(base) + 1 PROVE entry'[new[i]] = Append(Show(base), pair)[i]
  <2>1. CASE i = Len(base) + 1
    BY <1>4, <1>5, <1>7, <2>1
  <2>2. CASE i \in 1 .. Len(base)
    BY <1>3, <1>5, <1>6, <1>7, <2>2
  <2> QED
    BY <1>8, <2>1, <2>2
<1>10. View(o)' = [i \in 1 .. Len(base) + 1 |-> Append(Show(base), pair)[i]]
  BY <1>1, <1>4, <1>9 DEF View
<1>11. \A s \in Seq(Pairs) : s = [i \in 1 .. Len(s) |-> s[i]]
  OBVIOUS
<1> QED
  BY <1>7, <1>10, <1>11

\* A filter of entries is one of the pairs they hold.
LEMMA ShowFiltered ==
  ASSUME ListsInv, NEW array \in Seq(1 .. Len(entry)), NEW S, NEW T,
         \A e \in 1 .. Len(entry) : e \in S <=> entry[e] \in T
  PROVE  Filtered(array, S) \in Seq(1 .. Len(entry)) /\ Show(Filtered(array, S)) = Filtered(Show(array), T)
<1> DEFINE kept == Filtered(array, S)
           want == Filtered(Show(array), T)
<1>1. /\ Show(array) \in Seq(Pairs) /\ Len(Show(array)) = Len(array)
      /\ \A i \in 1 .. Len(array) : array[i] \in 1 .. Len(entry) /\ Show(array)[i] = entry[array[i]]
  BY ShowFacts
<1>2. kept \in Seq(1 .. Len(entry))
  BY FilteredDrawn
<1>3. Mapped(array, S, Show(array), T, entry)
  BY <1>1 DEF Mapped
<1>4. Len(want) = Len(kept) /\ \A k \in 1 .. Len(kept) : want[k] = entry[kept[k]]
  BY <1>1, <1>3, FilteredMaps
<1>5. want \in Seq(Pairs)
  BY <1>1, FilteredDrawn
<1> HIDE DEF kept, want
<1>6. /\ Show(kept) \in Seq(Pairs) /\ Len(Show(kept)) = Len(kept)
      /\ \A i \in 1 .. Len(kept) : Show(kept)[i] = entry[kept[i]]
  BY <1>2, ShowFacts
<1>7. Show(kept) = want
  BY <1>4, <1>5, <1>6, SeqEqual
<1> QED
  BY <1>2, <1>7 DEF kept, want

\* Without takes the pairs of a name out.
LEMMA ShowWithout ==
  ASSUME ListsInv, NEW array \in Seq(1 .. Len(entry)), NEW name
  PROVE  /\ Without(array, name) \in Seq(1 .. Len(entry))
         /\ Show(Without(array, name)) = Promise!Others(Show(array), name)
<1> DEFINE S == DOMAIN entry \ Named(name)
           T == {p \in Pairs : p[1] # name}
<1>1. \A e \in 1 .. Len(entry) : e \in S <=> entry[e] \in T
  BY LengthOfEntry DEF Named
<1> HIDE DEF S, T
<1>2. Filtered(array, S) \in Seq(1 .. Len(entry)) /\ Show(Filtered(array, S)) = Filtered(Show(array), T)
  BY <1>1, ShowFiltered
<1>3. Without(array, name) = Filtered(array, S)
  BY DEF Without, S
<1>4. Promise!Others(Show(array), name) = Filtered(Show(array), T)
  BY PromiseDefs DEF Promise!Others, T
<1> QED
  BY <1>2, <1>3, <1>4

\* No entry is changed.
LEMMA ShowKept ==
  ASSUME ListsInv, NEW o \in Objects, NEW base, entry' = entry, list' = [list EXCEPT ![o] = base]
  PROVE  View(o)' = Show(base)
<1>1. list'[o] = base
  BY DEF ListsInv, ArraysInv
<1> QED
  BY <1>1 DEF View, Show

-----------------------------------------------------------------------------
(* What a method leaves is what the promise says.                           *)

LEMMA AppendKeeps ==
  ASSUME ListsInv, NEW o \in Objects, NEW name \in Names, NEW value \in Values,
         AppendPair(o, name, value)
  PROVE  Promise!Method(class[o], View(o), View(o)')
<1> DEFINE pair == <<Key(o, name), value>>
<1>1. Push(<<pair>>) /\ list' = [list EXCEPT ![o] = Pushed(list[o], 1)]
  BY DEF AppendPair, InPlace
<1>2. pair \in Pairs
  BY KeyIsName DEF Pairs
<1>3. Promise!Added(class[o], View(o), name, value) = Append(View(o), pair)
  BY DEF Promise!Added, Promise!Key, Key
<1> HIDE DEF pair
<1>4. View(o)' = Append(View(o), pair)
  <2>1. list[o] \in Seq(1 .. Len(entry)) /\ View(o) = Show(list[o])
    BY ViewFacts
  <2>2. View(o)' = Append(Show(list[o]), pair)
    BY <1>1, <1>2, <2>1, ShowPushed
  <2> QED
    BY <2>1, <2>2
<1> QED
  BY <1>3, <1>4, PromiseDefs DEF Promise!Method

LEMMA SetHeaderKeeps ==
  ASSUME ListsInv, NEW o \in Objects, NEW name \in Names, NEW value \in Values,
         SetHeader(o, name, value)
  PROVE  Promise!Method(class[o], View(o), View(o)')
<1> DEFINE n == Lower[name]
           pair == <<n, value>>
           base == Without(list[o], n)
<1>1. /\ class[o] = "Headers" /\ Push(<<pair>>)
      /\ list' = [list EXCEPT ![o] = Pushed(base, 1)]
  BY DEF SetHeader, Replace
<1>2. pair \in Pairs
  BY KeyIsName DEF Pairs
<1>3. list[o] \in Seq(1 .. Len(entry)) /\ View(o) = Show(list[o])
  BY ViewFacts
<1>4. base \in Seq(1 .. Len(entry)) /\ Show(base) = Promise!Others(View(o), n)
  BY <1>3, ShowWithout
<1>5. Promise!Put(class[o], View(o), name, value) = Append(Promise!Others(View(o), n), pair)
  BY <1>1 DEF Promise!Put, Promise!Key
<1> HIDE DEF n, pair, base
<1>6. View(o)' = Append(Show(base), pair)
  BY <1>1, <1>2, <1>4, ShowPushed
<1> QED
  BY <1>4, <1>5, <1>6, PromiseDefs DEF Promise!Method

LEMMA DeleteKeeps ==
  ASSUME ListsInv, NEW o \in Objects, NEW name \in Names, Delete(o, name)
  PROVE  Promise!Method(class[o], View(o), View(o)')
<1>1. entry' = entry /\ list' = [list EXCEPT ![o] = Without(list[o], Key(o, name))]
  BY DEF Delete, Replace
<1>2. View(o)' = Show(Without(list[o], Key(o, name)))
  BY <1>1, ShowKept
<1>3. Show(Without(list[o], Key(o, name))) = Promise!Others(View(o), Key(o, name))
  BY ViewFacts, ShowWithout
<1>4. Promise!Key(class[o], name) = Key(o, name)
  BY DEF Promise!Key, Key
<1> QED
  BY <1>2, <1>3, <1>4, PromiseDefs DEF Promise!Method

LEMMA DeletePairKeeps ==
  ASSUME ListsInv, NEW o \in Objects, NEW pair \in Pairs, DeletePair(o, pair)
  PROVE  Promise!Method(class[o], View(o), View(o)')
<1> DEFINE S == {e \in DOMAIN entry : entry[e] # pair}
<1>1. /\ class[o] = "URLSearchParams" /\ entry' = entry
      /\ list' = [list EXCEPT ![o] = Filtered(list[o], S)]
  BY DEF DeletePair, Replace
<1>2. \A e \in 1 .. Len(entry) : e \in S <=> entry[e] \in Pairs \ {pair}
  BY LengthOfEntry
<1> HIDE DEF S
<1>3. View(o)' = Show(Filtered(list[o], S))
  BY <1>1, ShowKept
<1>4. Show(Filtered(list[o], S)) = Filtered(View(o), Pairs \ {pair})
  BY <1>2, ViewFacts, ShowFiltered
<1>5. PICK name \in Names, value \in Values : pair = <<name, value>>
  BY DEF Pairs
<1> QED
  BY <1>1, <1>3, <1>4, <1>5, PromiseDefs DEF Promise!Method

\* The first pair of the name is changed in its place, those after it are left out.
LEMMA SetInPlaceKeeps ==
  ASSUME ListsInv, NEW o \in Objects, NEW name \in Names, NEW value \in Values,
         SetFirst(o, name, value), At(o, name) # {}
  PROVE  View(o)' = Promise!Put(class[o], View(o), name, value)
<1> DEFINE f == Min(At(o, name))
           old == View(o)
           e == list[o][f]
           tail == SubSeq(list[o], f + 1, Len(list[o]))
           kept == Without(tail, name)
           new == SubSeq(list[o], 1, f) \o kept
           pair == <<name, value>>
           rest == Promise!Others(SubSeq(old, f + 1, Len(old)), name)
           want == SubSeq(old, 1, f - 1) \o <<pair>> \o rest
<1>1. /\ class[o] # "Headers" /\ entry' = [entry EXCEPT ![e] = [entry[e] EXCEPT ![2] = value]]
      /\ list' = [list EXCEPT ![o] = new]
  BY DEF SetFirst, Replace
<1>2. /\ list[o] \in Seq(1 .. Len(entry)) /\ old \in Seq(Pairs) /\ Len(old) = Len(list[o])
      /\ DOMAIN old = 1 .. Len(list[o])
      /\ \A i \in 1 .. Len(list[o]) : list[o][i] \in 1 .. Len(entry) /\ old[i] = entry[list[o][i]]
  BY ViewFacts
<1>3. entry \in Seq(Pairs) /\ Len(entry) \in Nat /\ DOMAIN entry = 1 .. Len(entry)
  BY LengthOfEntry
<1>4. At(o, name) = {i \in 1 .. Len(list[o]) : old[i][1] = name}
  BY <1>2 DEF At
<1>5. f \in At(o, name)
  <2>1. At(o, name) \subseteq Nat
    BY <1>2, <1>4
  <2> QED
    BY <2>1, MinIsLeast
<1>6. Promise!Put(class[o], old, name, value) = want
  <2>1. Promise!Key(class[o], name) = name
    BY <1>1 DEF Promise!Key
  <2>2. {i \in DOMAIN old : old[i][1] = name} = At(o, name)
    BY <1>2, <1>4
  <2> HIDE DEF old
  <2>3. Promise!Put(class[o], old, name, value)
          = SubSeq(old, 1, Promise!Min(At(o, name)) - 1) \o <<pair>>
              \o Promise!Others(SubSeq(old, Promise!Min(At(o, name)) + 1, Len(old)), name)
    BY <1>1, <2>1, <2>2 DEF Promise!Put
  <2> QED
    BY <2>3, PromiseDefs
<1> HIDE DEF f
<1>7. f \in 1 .. Len(list[o]) /\ e \in 1 .. Len(entry) /\ old[f][1] = name /\ old[f] = entry[e]
  BY <1>2, <1>4, <1>5
<1>8. [entry[e] EXCEPT ![2] = value] = pair /\ pair \in Pairs
  <2>1. PICK n \in Names, v \in Values : entry[e] = <<n, v>>
    BY <1>3, <1>7 DEF Pairs
  <2>2. [<<n, v>> EXCEPT ![2] = value] = <<n, value>>
    OBVIOUS
  <2>3. n = name
    BY <1>7, <2>1
  <2> QED
    BY <2>1, <2>2, <2>3 DEF Pairs
<1>9. /\ tail \in Seq(1 .. Len(entry)) /\ Len(tail) = Len(list[o]) - f
      /\ \A k \in 1 .. Len(tail) : tail[k] = list[o][f + k]
      /\ SubSeq(list[o], 1, f) \in Seq(1 .. Len(entry)) /\ Len(SubSeq(list[o], 1, f)) = f
      /\ \A k \in 1 .. f : SubSeq(list[o], 1, f)[k] = list[o][k]
  <2>1. PICK q : q = list[o]
    OBVIOUS
  <2>2. PICK S : S = 1 .. Len(entry)
    OBVIOUS
  <2>3. q \in Seq(S) /\ Len(q) \in Nat /\ f \in 1 .. Len(q)
    BY <1>2, <1>7, <2>1, <2>2
  <2>4. SubSeq(q, f + 1, Len(q)) \in Seq(S) /\ Len(SubSeq(q, f + 1, Len(q))) = Len(q) - f
    BY ONLY <2>3, SMT
  <2>5. \A k \in 1 .. Len(q) - f : SubSeq(q, f + 1, Len(q))[k] = q[f + k]
    BY ONLY <2>3, SMT
  <2>6. SubSeq(q, 1, f) \in Seq(S) /\ Len(SubSeq(q, 1, f)) = f
    BY ONLY <2>3, SMT
  <2>7. \A k \in 1 .. f : SubSeq(q, 1, f)[k] = q[k]
    BY ONLY <2>3, SMT
  <2>8. tail = SubSeq(q, f + 1, Len(q))
    BY <2>1
  <2> HIDE DEF tail
  <2> QED
    BY <2>1, <2>2, <2>4, <2>5, <2>6, <2>7, <2>8
<1>10. /\ SubSeq(old, f + 1, Len(old)) \in Seq(Pairs)
       /\ Len(SubSeq(old, f + 1, Len(old))) = Len(tail)
       /\ \A k \in 1 .. Len(tail) : SubSeq(old, f + 1, Len(old))[k] = old[f + k]
       /\ SubSeq(old, 1, f - 1) \in Seq(Pairs) /\ Len(SubSeq(old, 1, f - 1)) = f - 1
       /\ \A k \in 1 .. f - 1 : SubSeq(old, 1, f - 1)[k] = old[k]
  <2> HIDE DEF old, tail
  <2>1. /\ old \in Seq(Pairs) /\ Len(old) \in Nat /\ f \in 1 .. Len(old)
        /\ Len(tail) = Len(old) - f
    BY <1>2, <1>7, <1>9
  <2>2. /\ SubSeq(old, f + 1, Len(old)) \in Seq(Pairs)
        /\ Len(SubSeq(old, f + 1, Len(old))) = Len(old) - f
    BY <2>1
  <2>3. \A k \in 1 .. Len(old) - f : SubSeq(old, f + 1, Len(old))[k] = old[f + k]
    BY <2>1
  <2>4. SubSeq(old, 1, f - 1) \in Seq(Pairs) /\ Len(SubSeq(old, 1, f - 1)) = f - 1
    BY <2>1
  <2>5. \A k \in 1 .. f - 1 : SubSeq(old, 1, f - 1)[k] = old[k]
    BY <2>1
  <2> QED
    BY <2>1, <2>2, <2>3, <2>4, <2>5
<1>11. Show(tail) = SubSeq(old, f + 1, Len(old))
  <2>1. /\ Show(tail) \in Seq(Pairs) /\ Len(Show(tail)) = Len(tail)
        /\ \A k \in 1 .. Len(tail) : Show(tail)[k] = entry[tail[k]]
    BY <1>9, ShowFacts
  <2> HIDE DEF old, tail
  <2>2. \A k \in 1 .. Len(tail) : f + k \in 1 .. Len(list[o])
    BY <1>7, <1>9
  <2>3. ASSUME NEW k \in 1 .. Len(tail)
        PROVE  Show(tail)[k] = SubSeq(old, f + 1, Len(old))[k]
    <3>1. tail[k] = list[o][f + k] /\ old[f + k] = entry[list[o][f + k]]
      BY <1>2, <1>9, <2>2
    <3> QED
      BY <1>10, <2>1, <3>1
  <2> QED
    BY <1>10, <2>1, <2>3, SeqEqual
<1>12. /\ kept \in Seq(1 .. Len(entry)) /\ Show(kept) = rest
       /\ Drawn(kept, tail)
  <2>1. kept \in Seq(1 .. Len(entry)) /\ Show(kept) = Promise!Others(Show(tail), name)
    BY <1>9, ShowWithout
  <2>2. Drawn(kept, tail)
    BY <1>9, FilteredDrawn DEF Without
  <2> QED
    BY <1>11, <2>1, <2>2
<1>13. /\ rest \in Seq(Pairs) /\ Len(rest) = Len(kept)
       /\ \A k \in 1 .. Len(kept) : kept[k] \in 1 .. Len(entry) /\ rest[k] = entry[kept[k]]
  <2>1. /\ Show(kept) \in Seq(Pairs) /\ Len(Show(kept)) = Len(kept)
        /\ \A k \in 1 .. Len(kept) : kept[k] \in 1 .. Len(entry) /\ Show(kept)[k] = entry[kept[k]]
    BY <1>12, ShowFacts
  <2> QED
    BY <1>12, <2>1
<1> HIDE DEF e, old, tail, kept, pair, rest
<1>14. \A d \in 1 .. Len(entry) : entry'[d] = IF d = e THEN pair ELSE entry[d]
  BY <1>1, <1>3, <1>8
<1>15. \A i \in 1 .. Len(list[o]) : i # f => list[o][i] # e
  <2>1. \A i, j \in 1 .. Len(list[o]) : list[o][i] = list[o][j] => i = j
    BY <1>2 DEF ListsInv, ArraysInv, Disjoint
  <2> QED
    BY <1>7, <2>1 DEF e
<1>16. \A k \in 1 .. Len(kept) : kept[k] # e
  <2> SUFFICES ASSUME NEW k \in 1 .. Len(kept) PROVE kept[k] # e
    OBVIOUS
  <2>1. PICK i \in 1 .. Len(tail) : kept[k] = tail[i]
    BY <1>12 DEF Drawn
  <2>2. f + i \in 1 .. Len(list[o]) /\ f + i # f /\ tail[i] = list[o][f + i]
    BY <1>7, <1>9, <2>1
  <2> QED
    BY <1>15, <2>1, <2>2
<1>17. /\ new \in Seq(1 .. Len(entry)) /\ Len(new) = f + Len(kept) /\ Len(kept) \in Nat
       /\ \A k \in 1 .. f : new[k] = list[o][k]
       /\ \A k \in 1 .. Len(kept) : new[f + k] = kept[k]
  <2> DEFINE head == SubSeq(list[o], 1, f)
  <2>1. head \in Seq(1 .. Len(entry)) /\ Len(head) = f /\ \A k \in 1 .. f : head[k] = list[o][k]
    BY <1>9
  <2> HIDE DEF head
  <2>2. /\ head \o kept \in Seq(1 .. Len(entry))
        /\ Len(head \o kept) = Len(head) + Len(kept) /\ Len(kept) \in Nat
        /\ \A k \in 1 .. Len(head) : (head \o kept)[k] = head[k]
        /\ \A k \in 1 .. Len(kept) : (head \o kept)[Len(head) + k] = kept[k]
    <3>1. head \in Seq(1 .. Len(entry)) /\ kept \in Seq(1 .. Len(entry))
      BY <1>12, <2>1
    <3> QED
      BY ONLY <3>1, JoinedParts
  <2>3. new = head \o kept
    BY DEF head
  <2> HIDE DEF new
  <2> QED
    BY <2>1, <2>2, <2>3
<1>18. /\ want \in Seq(Pairs) /\ Len(want) = f + Len(kept)
       /\ \A k \in 1 .. f - 1 : want[k] = old[k]
       /\ want[f] = pair
       /\ \A k \in 1 .. Len(kept) : want[f + k] = rest[k]
  <2> DEFINE head == SubSeq(old, 1, f - 1)
             upto == head \o <<pair>>
  <2>1. head \in Seq(Pairs) /\ Len(head) = f - 1 /\ \A k \in 1 .. f - 1 : head[k] = old[k]
    BY <1>10
  <2> HIDE DEF head
  <2>2. /\ upto \in Seq(Pairs) /\ Len(upto) = f /\ upto[f] = pair
        /\ \A k \in 1 .. f - 1 : upto[k] = head[k]
    BY <1>7, <1>8, <2>1
  <2> HIDE DEF upto
  <2>3. /\ upto \o rest \in Seq(Pairs) /\ Len(upto \o rest) = Len(upto) + Len(rest)
        /\ \A k \in 1 .. Len(upto) : (upto \o rest)[k] = upto[k]
        /\ \A k \in 1 .. Len(rest) : (upto \o rest)[Len(upto) + k] = rest[k]
    <3>1. upto \in Seq(Pairs) /\ rest \in Seq(Pairs)
      BY <1>13, <2>2
    <3> QED
      BY ONLY <3>1, JoinedParts
  <2>6. want = upto \o rest
    BY DEF upto, head
  <2>7. f \in 1 .. f /\ \A k \in 1 .. f - 1 : k \in 1 .. f
    BY <1>7
  <2> HIDE DEF want
  <2> QED
    BY <1>13, <2>1, <2>2, <2>3, <2>6, <2>7
<1> HIDE DEF new, want
<1>19. \A k \in 1 .. f + Len(kept) : k \in 1 .. f - 1 \/ k = f \/ \E i \in 1 .. Len(kept) : k = f + i
  <2> SUFFICES ASSUME NEW k \in 1 .. f + Len(kept), ~ (k \in 1 .. f - 1 \/ k = f)
               PROVE  \E i \in 1 .. Len(kept) : k = f + i
    OBVIOUS
  <2>1. k - f \in 1 .. Len(kept) /\ k = f + (k - f)
    BY <1>7, <1>17
  <2> QED
    BY <2>1
<1>20. ASSUME NEW k \in 1 .. f + Len(kept) PROVE entry'[new[k]] = want[k]
  <2>1. CASE k \in 1 .. f - 1
    <3>1. k \in 1 .. Len(list[o]) /\ k # f /\ k \in 1 .. f
      BY <1>7, <2>1
    <3>2. new[k] = list[o][k] /\ list[o][k] # e /\ list[o][k] \in 1 .. Len(entry)
      BY <1>2, <1>15, <1>17, <3>1
    <3>3. entry'[new[k]] = old[k]
      BY <1>2, <1>14, <3>1, <3>2
    <3> QED
      BY <1>18, <2>1, <3>3
  <2>2. CASE k = f
    <3>1. new[f] = e
      BY <1>7, <1>17 DEF e
    <3>2. entry'[e] = pair
      BY <1>7, <1>14
    <3> QED
      BY <1>18, <2>2, <3>1, <3>2
  <2>3. CASE \E i \in 1 .. Len(kept) : k = f + i
    <3>1. PICK i \in 1 .. Len(kept) : k = f + i
      BY <2>3
    <3>2. new[k] = kept[i] /\ want[k] = rest[i]
      BY <1>17, <1>18, <3>1
    <3>3. kept[i] \in 1 .. Len(entry) /\ kept[i] # e /\ rest[i] = entry[kept[i]]
      BY <1>13, <1>16
    <3>4. entry'[kept[i]] = entry[kept[i]]
      BY <1>14, <3>3
    <3> QED
      BY <3>2, <3>3, <3>4
  <2> QED
    BY <1>19, <2>1, <2>2, <2>3
<1>21. View(o)' = [k \in 1 .. f + Len(kept) |-> want[k]]
  <2>1. list'[o] = new /\ DOMAIN new = 1 .. f + Len(kept)
    BY <1>1, <1>17 DEF ListsInv, ArraysInv
  <2> QED
    BY <1>20, <2>1 DEF View
<1>22. \A s \in Seq(Pairs) : s = [i \in 1 .. Len(s) |-> s[i]]
  OBVIOUS
<1> QED
  BY <1>6, <1>18, <1>21, <1>22 DEF old

LEMMA SetFirstKeeps ==
  ASSUME ListsInv, NEW o \in Objects, NEW name \in Names, NEW value \in Values,
         SetFirst(o, name, value)
  PROVE  Promise!Method(class[o], View(o), View(o)')
<1>1. CASE At(o, name) = {}
  <2>1. AppendPair(o, name, value)
    BY <1>1 DEF SetFirst
  <2> QED
    BY <2>1, AppendKeeps
<1>2. CASE At(o, name) # {}
  BY <1>2, SetInPlaceKeeps, PromiseDefs DEF Promise!Method
<1> QED
  BY <1>1, <1>2

LEMMA RankIsPlace ==
  ASSUME NEW i \in DOMAIN NameOrder
  PROVE  Promise!Rank(NameOrder[i]) = i
BY NamesAssumption DEF Promise!Rank, IsInjective

LEMMA SortKeeps ==
  ASSUME ListsInv, NEW o \in Objects, Sort(o)
  PROVE  Promise!Method(class[o], View(o), View(o)')
<1> DEFINE n == Len(NameOrder)
           sets == [i \in 1 .. n |-> Named(NameOrder[i])]
           t == FlattenSeq([i \in 1 .. n |-> Filtered(list[o], sets[i])])
           old == View(o)
<1>1. n \in Nat /\ DOMAIN NameOrder = 1 .. n
  BY NamesAssumption
<1>2. class[o] = "URLSearchParams" /\ entry' = entry /\ list' = [list EXCEPT ![o] = t]
  <2>1. FlattenSeq([i \in DOMAIN NameOrder |-> Filtered(list[o], Named(NameOrder[i]))]) = t
    BY <1>1
  <2> QED
    BY <2>1 DEF Sort
<1>3. /\ list[o] \in Seq(1 .. Len(entry)) /\ old \in Seq(Pairs) /\ Len(old) = Len(list[o])
      /\ DOMAIN old = 1 .. Len(list[o])
      /\ \A i \in 1 .. Len(list[o]) : list[o][i] \in 1 .. Len(entry) /\ old[i] = entry[list[o][i]]
  BY ViewFacts
<1>4. \A i \in 1 .. n : sets[i] = {d \in 1 .. Len(entry) : entry[d][1] = NameOrder[i]}
  BY LengthOfEntry DEF Named
<1> HIDE DEF n, sets, old
<1>5. Apart(sets, n)
  <2>1. \A i, j \in 1 .. n : NameOrder[i] = NameOrder[j] => i = j
    BY <1>1, NamesAssumption DEF IsInjective
  <2> QED
    BY <1>4, <2>1 DEF Apart
<1>6. t \in Seq(1 .. Len(entry)) /\ \E c, q : SortOf(t, c, q, list[o], n, sets)
  BY <1>1, <1>3, SortedPicks
<1> HIDE DEF t
<1>7. PICK c, q : SortOf(t, c, q, list[o], n, sets)
  BY <1>6
<1>8. Covers(sets, n, list[o])
  <2> SUFFICES ASSUME NEW h \in 1 .. Len(list[o]) PROVE \E i \in 1 .. n : list[o][h] \in sets[i]
    BY DEF Covers
  <2>1. list[o][h] \in 1 .. Len(entry) /\ entry[list[o][h]] \in Pairs
    BY <1>3, LengthOfEntry
  <2>2. entry[list[o][h]][1] \in Names
    BY <2>1 DEF Pairs
  <2>3. PICK i \in 1 .. n : NameOrder[i] = entry[list[o][h]][1]
    BY <1>1, <2>2 DEF Names, ToSet
  <2> QED
    BY <1>4, <2>1, <2>3
<1>9. Len(t) = Len(list[o])
  BY <1>1, <1>3, <1>5, <1>6, <1>7, <1>8, SortedIsWhole
<1>10. /\ c \in [1 .. Len(t) -> 1 .. n] /\ q \in [1 .. Len(t) -> 1 .. Len(list[o])]
       /\ \A k \in 1 .. Len(t) : t[k] = list[o][q[k]] /\ t[k] \in sets[c[k]]
       /\ \A j, k \in 1 .. Len(t) : j < k => c[j] < c[k] \/ (c[j] = c[k] /\ q[j] < q[k])
  BY <1>7 DEF SortOf
<1>11. ASSUME NEW k \in 1 .. Len(t)
       PROVE  old[q[k]] = entry[t[k]] /\ old[q[k]][1] = NameOrder[c[k]]
  <2>1. /\ q[k] \in 1 .. Len(list[o]) /\ c[k] \in 1 .. n
        /\ t[k] = list[o][q[k]] /\ t[k] \in sets[c[k]]
    BY <1>10
  <2>2. entry[t[k]][1] = NameOrder[c[k]]
    BY <1>4, <2>1
  <2> QED
    BY <1>3, <2>1, <2>2
<1>12. \A k \in 1 .. Len(t) : Promise!Rank(old[q[k]][1]) = c[k]
  BY <1>1, <1>10, <1>11, RankIsPlace
<1>13. View(o)' = [k \in DOMAIN old |-> old[q[k]]]
  <2>1. list'[o] = t /\ DOMAIN t = DOMAIN old
    BY <1>2, <1>3, <1>6, <1>9 DEF ListsInv, ArraysInv
  <2> QED
    BY <1>2, <1>3, <1>9, <1>11, <2>1 DEF View
<1>14. q \in [DOMAIN old -> DOMAIN old]
  BY <1>3, <1>9, <1>10
<1>15. ASSUME NEW i \in DOMAIN old, NEW j \in DOMAIN old, i < j
       PROVE  \/ Promise!Rank(old[q[i]][1]) < Promise!Rank(old[q[j]][1])
              \/ old[q[i]][1] = old[q[j]][1] /\ q[i] < q[j]
  <2>1. i \in 1 .. Len(t) /\ j \in 1 .. Len(t)
    BY <1>3, <1>9
  <2>2. CASE c[i] < c[j]
    BY <1>12, <2>1, <2>2
  <2>3. CASE c[i] = c[j] /\ q[i] < q[j]
    BY <1>11, <2>1, <2>3
  <2> QED
    BY <1>10, <1>15, <2>1, <2>2, <2>3
<1>16. Promise!IsInOrder(View(o)', old)
  BY <1>13, <1>14, <1>15 DEF Promise!IsInOrder
<1> QED
  BY <1>2, <1>16 DEF Promise!Method, old

LEMMA MethodKeeps ==
  ASSUME ListsInv, NEW o \in Objects, Method(o)
  PROVE  Promise!Method(class[o], View(o), View(o)')
<1>1. ASSUME NEW pair \in Pairs,
             \/ AppendPair(o, pair[1], pair[2]) \/ SetHeader(o, pair[1], pair[2])
             \/ SetFirst(o, pair[1], pair[2])
      PROVE  Promise!Method(class[o], View(o), View(o)')
  <2>1. pair[1] \in Names /\ pair[2] \in Values
    BY DEF Pairs
  <2> QED
    BY <1>1, <2>1, AppendKeeps, SetHeaderKeeps, SetFirstKeeps
<1> QED
  BY <1>1, DeletePairKeeps, DeleteKeeps, SortKeeps DEF Method

\* What a constructor stores.
LEMMA ConstructKeeps ==
  ASSUME ListsInv, NEW o \in Objects, NEW c \in Classes, NEW pairs \in Seq(Pairs),
         Construct(o, c, pairs)
  PROVE  View(o)' \in Seq(Promise!Stored(c))
<1> DEFINE lower == [i \in DOMAIN pairs |-> <<Lower[pairs[i][1]], pairs[i][2]>>]
           stored == IF c = "Headers" THEN lower ELSE pairs
<1>1. Push(stored) /\ list' = [list EXCEPT ![o] = Pushed(<<>>, Len(pairs))]
  BY DEF Construct, InPlace
<1>2. DOMAIN pairs = 1 .. Len(pairs) /\ Len(pairs) \in Nat
  OBVIOUS
<1>3. ASSUME NEW i \in 1 .. Len(pairs)
      PROVE  stored[i] \in Promise!Stored(c) /\ stored[i] \in Pairs
  <2>1. PICK n \in Names, v \in Values : pairs[i] = <<n, v>>
    BY DEF Pairs
  <2>2. <<n, v>> \in Pairs /\ <<Lower[n], v>> \in Pairs
    BY LowerAssumption DEF Pairs
  <2>3. stored[i] = <<Promise!Key(c, <<n, v>>[1]), <<n, v>>[2]>>
    BY <1>2, <2>1 DEF Promise!Key
  <2>4. stored[i] \in Promise!Stored(c)
    BY <2>2, <2>3, PromiseDefs DEF Promise!Stored
  <2> QED
    BY <1>2, <2>1, <2>2, <2>4
<1>4. stored = [i \in 1 .. Len(pairs) |-> stored[i]]
  <2>1. pairs = [i \in 1 .. Len(pairs) |-> pairs[i]]
    OBVIOUS
  <2>2. lower = [i \in 1 .. Len(pairs) |-> lower[i]]
    BY <1>2
  <2> HIDE DEF lower
  <2> QED
    BY <2>1, <2>2
<1> HIDE DEF stored
<1>5. stored \in Seq(Promise!Stored(c)) /\ stored \in Seq(Pairs) /\ Len(stored) = Len(pairs)
  BY <1>2, <1>3, <1>4
<1> QED
  BY <1>1, <1>5, PushView

-----------------------------------------------------------------------------
(* Every step of Url is one of PairLists.                                   *)

Shown == [o \in Objects |-> View(o)]
Owned == {params[u] : u \in Urls} \ {NoObject}

\* A step that changes one object.
LEMMA OnlyOne ==
  ASSUME NEW o \in Objects, ListsInv, ListsInv',
         \A p \in Objects \ {o} : View(p)' = View(p) /\ class'[p] = class[p]
  PROVE  Promise!Only(o)
<1>1. Shown' = [Shown EXCEPT ![o] = Shown'[o]]
  BY DEF Shown
<1>2. class' = [class EXCEPT ![o] = class'[o]]
  BY DEF ListsInv
<1> QED
  BY <1>1, <1>2 DEF Promise!Only, Shown

LEMMA ShownOf ==
  ASSUME NEW o \in Objects
  PROVE  Shown[o] = View(o) /\ Shown'[o] = View(o)'
BY DEF Shown

LEMMA CreateStep ==
  ASSUME UrlInv, UrlInv', NEW o \in Objects, NEW c \in Classes, NEW pairs \in Seq(Pairs),
         Construct(o, c, pairs), Owned' \in {Owned, Owned \cup {o}}
  PROVE  Promise!Create(o)
<1>1. ListsInv /\ ListsInv'
  BY DEF UrlInv
<1>2. ListStep(o) /\ class[o] = "none" /\ class' = [class EXCEPT ![o] = c]
  BY <1>1, ConstructStep
<1>3. \A p \in Objects \ {o} : View(p)' = View(p) /\ class'[p] = class[p]
  BY <1>1, <1>2, OtherKeeps DEF ListsInv
<1>4. Promise!Only(o)
  BY <1>1, <1>3, OnlyOne
<1>5. class'[o] = c /\ c \in Promise!Kinds
  BY <1>1, <1>2 DEF ListsInv, Classes, Promise!Kinds
<1>6. Shown'[o] \in Seq(Promise!Stored(class'[o]))
  BY <1>1, <1>5, ConstructKeeps, ShownOf
<1> QED
  BY <1>2, <1>4, <1>5, <1>6 DEF Promise!Create, Shown, Owned

LEMMA MethodIsCall ==
  ASSUME UrlInv, UrlInv', NEW o \in Objects, CallMethod(o)
  PROVE  Promise!CallMethod(o)
<1>1. ListsInv /\ ListsInv' /\ Method(o) /\ params' = params
  BY DEF UrlInv, CallMethod
<1>2. ListStep(o) /\ class' = class /\ class[o] # "none"
  BY <1>1, MethodStep
<1>3. Promise!Only(o)
  BY <1>1, <1>2, OtherKeeps, OnlyOne
<1>4. Promise!Method(class[o], Shown[o], Shown'[o])
  BY <1>1, MethodKeeps, ShownOf
<1>5. Owned' = Owned
  BY <1>1 DEF Owned
<1> QED
  BY <1>2, <1>3, <1>4, <1>5 DEF Promise!CallMethod, Shown, Owned

LEMMA ReloadIsLoad ==
  ASSUME UrlInv, UrlInv', NEW u \in Urls, NEW query \in Seq(Pairs), Reload(u, query),
         params' = params
  PROVE  [Promise!PairsNext]_(Promise!pairVars)
<1>1. Owned' = Owned
  BY DEF Owned
<1>2. CASE UNCHANGED listVars
  <2>1. Shown' = Shown /\ class' = class
    BY <1>2 DEF listVars, Shown, View
  <2> QED
    BY <1>1, <2>1 DEF Promise!pairVars, Shown, Owned
<1>3. CASE params[u] # NoObject /\ Push(query) /\ Replace(params[u], Pushed(<<>>, Len(query)))
             /\ UNCHANGED class
  <2>1. PICK o \in Objects : o = params[u]
    BY <1>3 DEF UrlInv, PartsInv
  <2>2. ListsInv /\ ListsInv'
    BY DEF UrlInv
  <2>3. ListStep(o) /\ View(o)' = query
    BY <1>3, <2>1, <2>2, ReplaceAllStep
  <2>4. Promise!Only(o)
    BY <1>3, <2>2, <2>3, OtherKeeps, OnlyOne
  <2>5. Shown'[o] \in Seq(Promise!Pairs)
    BY <2>3, ShownOf, PromiseDefs
  <2>6. o \in Owned
    BY <1>3, <2>1 DEF Owned
  <2>7. Promise!Load(o)
    BY <1>1, <1>3, <2>4, <2>5, <2>6 DEF Promise!Load, Shown, Owned
  <2> QED
    BY <2>7 DEF Promise!PairsNext
<1> QED
  BY <1>2, <1>3 DEF Reload

LEMMA SearchParamsIsCreate ==
  ASSUME UrlInv, UrlInv', NEW u \in Urls, NEW o \in Objects, SearchParams(u, o)
  PROVE  Promise!Create(o)
<1>1. /\ params[u] = NoObject /\ Construct(o, "URLSearchParams", parts[u].query) /\ Made(u)
      /\ params' = [params EXCEPT ![u] = o]
  BY DEF SearchParams
<1>2. parts[u].query \in Seq(Pairs) /\ "URLSearchParams" \in Classes
  BY <1>1, IsUrlFacts DEF UrlInv, PartsInv, Made, Classes
<1>3. params \in [Urls -> Objects \cup {NoObject}] /\ o # NoObject
  BY ListsAssumption DEF UrlInv, PartsInv
<1>4. Owned' = Owned \cup {o}
  <2>1. params'[u] = o /\ \A v \in Urls \ {u} : params'[v] = params[v]
    BY <1>1, <1>3
  <2> QED
    BY <1>1, <1>3, <2>1 DEF Owned
<1> QED
  BY <1>1, <1>2, <1>4, CreateStep

LEMMA PromiseStep ==
  UrlInv /\ UrlInv' /\ [UrlNext]_urlVars => [Promise!PairsNext]_(Promise!pairVars)
<1> SUFFICES ASSUME UrlInv, UrlInv', [UrlNext]_urlVars
             PROVE  [Promise!PairsNext]_(Promise!pairVars)
  OBVIOUS
<1>1. ASSUME UNCHANGED <<class, list, entry, params>> PROVE UNCHANGED Promise!pairVars
  <2>1. Shown' = Shown /\ Owned' = Owned /\ class' = class
    BY <1>1 DEF Shown, View, Owned
  <2> QED
    BY <2>1 DEF Promise!pairVars, Shown, Owned
<1>2. CASE UNCHANGED urlVars
  BY <1>1, <1>2 DEF urlVars, listVars
<1>3. ASSUME NEW o \in Objects, Constructor(o) PROVE Promise!PairsNext
  <2>1. Owned' = Owned
    BY <1>3 DEF Constructor, Owned
  <2>2. ASSUME NEW from \in Objects, class[from] \in {"Headers", "URLSearchParams"}
        PROVE  View(from) \in Seq(Pairs) /\ class[from] \in Classes
    BY <2>2, ViewOfPairs DEF UrlInv, Classes
  <2>3. PICK c \in Classes, pairs \in Seq(Pairs) : Construct(o, c, pairs)
    BY <1>3, <2>2, GivenIsPairs DEF Constructor, Copy
  <2> QED
    BY <2>1, <2>3, CreateStep DEF Promise!PairsNext
<1>4. ASSUME NEW o \in Objects, CallMethod(o) PROVE Promise!PairsNext
  BY <1>4, MethodIsCall DEF Promise!PairsNext
<1>5. CASE Walk
  <2>1. UNCHANGED <<class, list, entry, params>>
    BY <1>5 DEF Walk, WalkSteps, WalkBegins
  <2> QED
    BY <1>1, <2>1
<1>6. ASSUME NEW u \in Urls, UrlLoads(u) PROVE [Promise!PairsNext]_(Promise!pairVars)
  <2>1. PICK query \in Query :
          \/ \E base \in Opaque \cup Based, hash \in 0 .. 1 :
               LET new == With(base, query, hash) IN NewUrl(u, new) \/ SetHref(u, new)
          \/ SetSearch(u, query)
    BY <1>6 DEF UrlLoads
  <2>2. query \in Seq(Pairs)
    BY QueryIsPairs
  <2>3. ASSUME NEW new, NewUrl(u, new) PROVE [Promise!PairsNext]_(Promise!pairVars)
    BY <1>1, <2>3 DEF NewUrl, listVars
  <2>4. ASSUME NEW new, SetHref(u, new), new.query = query
        PROVE  [Promise!PairsNext]_(Promise!pairVars)
    BY <2>2, <2>4, ReloadIsLoad DEF SetHref
  <2>5. CASE SetSearch(u, query)
    BY <2>2, <2>5, ReloadIsLoad DEF SetSearch
  <2>6. \A base \in Opaque \cup Based, hash \in 0 .. 1 : With(base, query, hash).query = query
    BY <2>2, WithIsUrl
  <2> QED
    BY <2>1, <2>3, <2>4, <2>5, <2>6
<1>7. ASSUME NEW u \in Urls, SetOther(u) PROVE [Promise!PairsNext]_(Promise!pairVars)
  <2>1. ASSUME NEW new, SetPart(u, new) PROVE UNCHANGED <<class, list, entry, params>>
    BY <2>1 DEF SetPart, listVars
  <2>2. UNCHANGED <<class, list, entry, params>>
    BY <1>7, <2>1 DEF SetOther, SetHostname, SetHost, SetPort, SetPath, SetHash
  <2> QED
    BY <1>1, <2>2
<1>8. ASSUME NEW u \in Urls, NEW o \in Objects, SearchParams(u, o) PROVE Promise!PairsNext
  BY <1>8, SearchParamsIsCreate DEF Promise!PairsNext
<1> QED
  BY <1>2, <1>3, <1>4, <1>5, <1>6, <1>7, <1>8 DEF UrlNext

LEMMA PromiseInit == UrlInit => Promise!PairsInit
<1> SUFFICES ASSUME UrlInit PROVE Promise!PairsInit
  OBVIOUS
<1>1. /\ class = [o \in Objects |-> "none"] /\ list = [o \in Objects |-> <<>>]
      /\ params = [u \in Urls |-> NoObject]
  BY DEF UrlInit, ListsInit
<1>2. ASSUME NEW o \in Objects PROVE View(o) = <<>>
  <2>1. ListsInv
    BY UrlInvInit DEF UrlInv
  <2>2. View(o) \in Seq(Pairs) /\ Len(View(o)) = Len(list[o]) /\ Len(list[o]) = 0
    BY <1>1, <2>1, ViewFacts
  <2> QED
    BY <2>2, EmptySeq
<1>3. Shown = [o \in Objects |-> <<>>]
  BY <1>2 DEF Shown
<1>4. Owned = {}
  BY <1>1 DEF Owned
<1> QED
  BY <1>1, <1>3, <1>4 DEF Promise!PairsInit, Shown, Owned

\* Each Headers, FormData and URLSearchParams is a list of its own, as PairLists says
\* it: a method changes the pairs of the object it is called on and of no other, and
\* to what that method promises, although entries are changed in place and arrays,
\* loops and copies share what they came from (src/worker.rs, src/runtime/url.rs).
THEOREM UrlKeepsPromise == UrlSpec => KeepsPromise
<1>1. UrlInv /\ [UrlNext]_urlVars => UrlInv'
  BY UrlInvStep
<1>2. UrlSpec => [][Promise!PairsNext]_(Promise!pairVars)
  BY <1>1, PromiseStep, UrlInvariant, PTL DEF UrlSpec
<1>3. UrlSpec => Promise!PairsInit
  BY PromiseInit DEF UrlSpec
<1> QED
  BY <1>2, <1>3 DEF KeepsPromise, Promise!PairsSpec

-----------------------------------------------------------------------------
(* What a fetch sends.                                                      *)

\* f is what Combined defines, up to n.
Combines(f, s, n) ==
  f = [i \in 0 .. n |-> IF i = 0 THEN <<>> ELSE Carried(f[i - 1], s[i])]

LEMMA CombinesExists ==
  ASSUME NEW s, NEW n \in Nat
  PROVE  \E f : Combines(f, s, n)
<1> DEFINE T == {m \in Nat : \E f : Combines(f, s, m)}
<1>1. 0 \in T
  <2>1. Combines([i \in 0 .. 0 |-> <<>>], s, 0)
    BY DEF Combines
  <2> QED
    BY <2>1
<1>2. ASSUME NEW m \in Nat, m \in T PROVE m + 1 \in T
  <2>1. PICK f : Combines(f, s, m)
    BY <1>2
  <2> DEFINE g == [i \in 0 .. m + 1 |-> IF i \in 0 .. m THEN f[i] ELSE Carried(f[i - 1], s[i])]
  <2>2. \A i \in 0 .. m : f[i] = IF i = 0 THEN <<>> ELSE Carried(f[i - 1], s[i])
    BY <2>1 DEF Combines
  <2>3. \A i \in 0 .. m + 1 : g[i] = IF i = 0 THEN <<>> ELSE Carried(g[i - 1], s[i])
    BY <2>2
  <2>4. Combines(g, s, m + 1)
    BY <2>3 DEF Combines
  <2> QED
    BY <2>4
<1> HIDE DEF T
<1>3. Nat \subseteq T
  BY <1>1, <1>2, Inductive
<1> QED
  BY <1>3 DEF T

LEMMA CombinedDef ==
  ASSUME NEW s, Len(s) \in Nat
  PROVE  \E f : Combines(f, s, Len(s)) /\ Combined(s) = f[Len(s)]
<1> DEFINE f == CHOOSE f : Combines(f, s, Len(s))
<1>1. Combines(f, s, Len(s))
  BY CombinesExists
<1>2. Combined(s) = f[Len(s)]
  BY Zenon DEF Combined, Combines
<1> QED
  BY <1>1, <1>2

\* The values of the pairs in mine, with the separator of n between them.
Joins(sent, mine, n) ==
  /\ Len(sent) = 2 * Len(mine) - 1
  /\ \A i \in DOMAIN sent :
       sent[i] = IF i % 2 = 1 THEN mine[(i + 1) \div 2][2] ELSE Separator(n)

\* What goes into one value, and what of a name there is to send.
Sendable == Values \cup {"; ", ", "}

SentOf(all, mine, n) ==
  IF mine = <<>> THEN n \notin DOMAIN all
  ELSE n \in DOMAIN all /\ all[n] \in Seq(Sendable) /\ Joins(all[n], mine, n)

\* A first value, and one more value.
LEMMA JoinsFirst ==
  ASSUME NEW pair \in Pairs, NEW n
  PROVE  <<pair[2]>> \in Seq(Sendable) /\ Joins(<<pair[2]>>, <<pair>>, n)
<1> DEFINE sent == <<pair[2]>>
           mine == <<pair>>
<1>1. pair[2] \in Values
  BY DEF Pairs
<1>2. /\ sent \in Seq(Sendable) /\ Len(sent) = 1 /\ DOMAIN sent = {1} /\ sent[1] = pair[2]
      /\ Len(mine) = 1 /\ mine[1] = pair
  <2>1. PICK v \in Sendable : v = pair[2]
    BY <1>1 DEF Sendable
  <2>2. <<v>> \in Seq(Sendable) /\ Len(<<v>>) = 1 /\ DOMAIN <<v>> = {1} /\ <<v>>[1] = v
    OBVIOUS
  <2>3. Len(<<pair>>) = 1 /\ <<pair>>[1] = pair
    OBVIOUS
  <2> QED
    BY <2>1, <2>2, <2>3
<1> HIDE DEF sent, mine
<1>3. 1 % 2 = 1 /\ (1 + 1) \div 2 = 1 /\ 1 = 2 * 1 - 1
  OBVIOUS
<1>4. Joins(sent, mine, n)
  BY <1>2, <1>3 DEF Joins
<1> QED
  BY <1>2, <1>4 DEF sent, mine

LEMMA JoinsNext ==
  ASSUME NEW mine \in Seq(Pairs), NEW pair \in Pairs, NEW n, NEW sent \in Seq(Sendable),
         mine # <<>>, Joins(sent, mine, n)
  PROVE  LET new == sent \o <<Separator(n), pair[2]>>
         IN new \in Seq(Sendable) /\ Joins(new, Append(mine, pair), n)
<1> DEFINE more == <<Separator(n), pair[2]>>
           new == sent \o more
           now == Append(mine, pair)
           l == Len(mine)
<1>1. pair[2] \in Sendable /\ Separator(n) \in Sendable
  BY DEF Pairs, Sendable, Separator
<1>2. more \in Seq(Sendable) /\ Len(more) = 2 /\ more[1] = Separator(n) /\ more[2] = pair[2]
  BY <1>1
<1>3. l \in Nat /\ l >= 1 /\ Len(sent) = 2 * l - 1
  <2>1. l \in Nat /\ l # 0
    BY EmptySeq
  <2> QED
    BY <2>1 DEF Joins
<1>4. \A i \in 1 .. 2 * l - 1 :
        sent[i] = IF i % 2 = 1 THEN mine[(i + 1) \div 2][2] ELSE Separator(n)
  BY <1>3 DEF Joins
<1>5. /\ now \in Seq(Pairs) /\ Len(now) = l + 1 /\ now[l + 1] = pair
      /\ \A i \in 1 .. l : now[i] = mine[i]
  BY AppendProperties
<1> HIDE DEF more, now, l
<1>6. /\ new \in Seq(Sendable) /\ Len(new) = 2 * l + 1
      /\ \A k \in 1 .. 2 * l - 1 : new[k] = sent[k]
      /\ new[2 * l] = Separator(n) /\ new[2 * l + 1] = pair[2]
  <2>1. /\ new \in Seq(Sendable) /\ Len(new) = Len(sent) + Len(more)
        /\ \A k \in 1 .. Len(sent) : new[k] = sent[k]
        /\ \A k \in 1 .. Len(more) : new[Len(sent) + k] = more[k]
    <3>1. sent \in Seq(Sendable) /\ more \in Seq(Sendable)
      BY <1>2
    <3> QED
      BY ONLY <3>1, JoinedParts
  <2> HIDE DEF new
  <2>2. 1 \in 1 .. Len(more) /\ 2 \in 1 .. Len(more) /\ Len(sent) + 1 = 2 * l
        /\ Len(sent) + 2 = 2 * l + 1 /\ Len(sent) + Len(more) = 2 * l + 1
    BY <1>2, <1>3
  <2>3. new[Len(sent) + 1] = more[1] /\ new[Len(sent) + 2] = more[2]
    BY <2>1, <2>2
  <2> QED
    BY <1>2, <1>3, <2>1, <2>2, <2>3
<1> HIDE DEF new
<1>7. DOMAIN new = 1 .. 2 * l + 1 /\ 2 * l + 1 = 2 * (l + 1) - 1
  BY <1>3, <1>6
<1>8. ASSUME NEW i \in 1 .. 2 * l + 1
      PROVE  new[i] = IF i % 2 = 1 THEN now[(i + 1) \div 2][2] ELSE Separator(n)
  <2>1. CASE i \in 1 .. 2 * l - 1
    <3>1. i % 2 = 1 => (i + 1) \div 2 \in 1 .. l
      BY <1>3, <2>1
    <3> QED
      BY <1>4, <1>5, <1>6, <2>1, <3>1
  <2>2. CASE i = 2 * l
    <3>1. i % 2 # 1
      BY <1>3, <2>2
    <3> QED
      BY <1>6, <2>2, <3>1
  <2>3. CASE i = 2 * l + 1
    <3>1. i % 2 = 1 /\ (i + 1) \div 2 = l + 1
      BY <1>3, <2>3
    <3> QED
      BY <1>5, <1>6, <2>3, <3>1
  <2>4. i \in 1 .. 2 * l - 1 \/ i = 2 * l \/ i = 2 * l + 1
    BY <1>3
  <2> QED
    BY <2>1, <2>2, <2>3, <2>4
<1>9. Joins(new, now, n)
  BY <1>5, <1>6, <1>7, <1>8 DEF Joins
<1> QED
  BY <1>6, <1>9 DEF new, more, now

\* Of every name, the pairs that were there.
LEMMA CombinedCarries ==
  ASSUME NEW s \in Seq(Pairs), NEW n
  PROVE  SentOf(Combined(s), Filtered(s, {p \in Pairs : Lower[p[1]] = n}), n)
<1> DEFINE S == {p \in Pairs : Lower[p[1]] = n}
<1>0. \A p \in Pairs : p \in S <=> Lower[p[1]] = n
  OBVIOUS
<1> HIDE DEF S
<1>1. PICK f : Filters(f, s, S, Len(s)) /\ Filtered(s, S) = f[Len(s)]
  BY FilteredDef
<1>2. PICK g : Combines(g, s, Len(s)) /\ Combined(s) = g[Len(s)]
  BY CombinedDef
<1>3. \A i \in 0 .. Len(s) :
        /\ f[i] = IF i = 0 THEN <<>>
                  ELSE IF s[i] \in S THEN Append(f[i - 1], s[i]) ELSE f[i - 1]
        /\ g[i] = IF i = 0 THEN <<>> ELSE Carried(g[i - 1], s[i])
  BY <1>1, <1>2 DEF Filters, Combines
<1> DEFINE T == {m \in Nat : m <= Len(s) => f[m] \in Seq(Pairs) /\ SentOf(g[m], f[m], n)}
<1>4. 0 \in T
  <2>1. f[0] = <<>> /\ g[0] = <<>> /\ <<>> \in Seq(Pairs) /\ DOMAIN <<>> = {}
    BY <1>3
  <2>2. SentOf(g[0], f[0], n)
    BY <2>1 DEF SentOf
  <2> QED
    BY <2>1, <2>2
<1>5. ASSUME NEW m \in Nat, m \in T PROVE m + 1 \in T
  <2>1. SUFFICES ASSUME m + 1 <= Len(s)
                 PROVE  f[m + 1] \in Seq(Pairs) /\ SentOf(g[m + 1], f[m + 1], n)
    BY <2>1
  <2>2. PICK pair \in Pairs : pair = s[m + 1]
    BY <2>1
  <2>3. PICK old, all : old = f[m] /\ all = g[m]
    OBVIOUS
  <2>4. old \in Seq(Pairs) /\ SentOf(all, old, n)
    BY <1>5, <2>1, <2>3
  <2>5. m + 1 \in 0 .. Len(s) /\ m + 1 # 0 /\ (m + 1) - 1 = m
    BY <2>1
  <2>6. /\ f[m + 1] = IF pair \in S THEN Append(old, pair) ELSE old
        /\ g[m + 1] = Carried(all, pair)
    BY <1>3, <2>2, <2>3, <2>5
  <2> DEFINE new == Carried(all, pair)
             k == Lower[pair[1]]
  <2>7. /\ DOMAIN new = DOMAIN all \cup {k}
        /\ \A i \in DOMAIN all : i # k => new[i] = all[i]
        /\ k \in DOMAIN all => new[k] = all[k] \o <<Separator(k), pair[2]>>
        /\ k \notin DOMAIN all => new[k] = <<pair[2]>>
    BY DEF Carried
  <2> HIDE DEF new, k
  <2>8. CASE pair \in S
    <3>1. k = n
      BY <1>0, <2>8 DEF k
    <3>2. Append(old, pair) \in Seq(Pairs) /\ Append(old, pair) # <<>>
      BY <2>4, AppendProperties
    <3>3. CASE old = <<>>
      <4>1. n \notin DOMAIN all /\ Append(old, pair) = <<pair>>
        BY <2>4, <3>3 DEF SentOf
      <4>2. new[n] = <<pair[2]>> /\ n \in DOMAIN new
        BY <2>7, <3>1, <4>1
      <4>3. SentOf(new, Append(old, pair), n)
        BY <3>2, <4>1, <4>2, JoinsFirst DEF SentOf
      <4> QED
        BY <2>6, <2>8, <3>2, <4>3 DEF new
    <3>4. CASE old # <<>>
      <4>1. n \in DOMAIN all /\ all[n] \in Seq(Sendable) /\ Joins(all[n], old, n)
        BY <2>4, <3>4 DEF SentOf
      <4>2. new[n] = all[n] \o <<Separator(n), pair[2]>> /\ n \in DOMAIN new
        BY <2>7, <3>1, <4>1
      <4>3. new[n] \in Seq(Sendable) /\ Joins(new[n], Append(old, pair), n)
        BY <2>4, <3>4, <4>1, <4>2, JoinsNext
      <4>4. SentOf(new, Append(old, pair), n)
        BY <3>2, <4>2, <4>3 DEF SentOf
      <4> QED
        BY <2>6, <2>8, <3>2, <4>4 DEF new
    <3> QED
      BY <3>3, <3>4
  <2>9. CASE pair \notin S
    <3>1. k # n
      BY <1>0, <2>9 DEF k
    <3>2. (n \in DOMAIN new <=> n \in DOMAIN all) /\ (n \in DOMAIN all => new[n] = all[n])
      BY <2>7, <3>1
    <3>3. SentOf(new, old, n)
      BY <2>4, <3>2 DEF SentOf
    <3> QED
      BY <2>4, <2>6, <2>9, <3>3 DEF new
  <2> QED
    BY <2>8, <2>9
<1> HIDE DEF T
<1>6. Nat \subseteq T
  BY <1>4, <1>5, Inductive
<1>7. Len(s) \in T /\ Len(s) \in Nat /\ Len(s) <= Len(s)
  BY <1>6
<1>8. SentOf(g[Len(s)], f[Len(s)], n)
  BY <1>7 DEF T
<1> QED
  BY <1>1, <1>2, <1>8 DEF S

\* A request carries every value of a repeated header, in the order of the list and
\* whatever the case its names were given in, for lists of any length (combine_headers).
THEOREM ListsLoseNoHeader == UrlSpec => []NoHeaderLost
<1>1. UrlInv => NoHeaderLost
  <2> SUFFICES ASSUME UrlInv, NEW o \in Objects, NEW n \in {Lower[name] : name \in Names}
               PROVE  LET mine == Filtered(View(o), {p \in Pairs : Lower[p[1]] = n})
                          sent == Combined(View(o))
                      IN IF mine = <<>> THEN n \notin DOMAIN sent
                         ELSE /\ Len(sent[n]) = 2 * Len(mine) - 1
                              /\ \A i \in DOMAIN sent[n] :
                                   sent[n][i] = IF i % 2 = 1 THEN mine[(i + 1) \div 2][2]
                                                ELSE Separator(n)
    BY DEF NoHeaderLost
  <2>1. View(o) \in Seq(Pairs)
    BY ViewFacts DEF UrlInv
  <2>2. SentOf(Combined(View(o)), Filtered(View(o), {p \in Pairs : Lower[p[1]] = n}), n)
    BY <2>1, CombinedCarries
  <2> QED
    BY <2>2 DEF SentOf, Joins
<1> QED
  BY <1>1, UrlInvariant, PTL
=============================================================================
