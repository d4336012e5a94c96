------------------------------- MODULE PairLists -------------------------------
(***************************************************************************)
(* What the list classes promise a script: every Headers, FormData and     *)
(* URLSearchParams is a sequence of name/value pairs of its own, which     *)
(* only its own methods change.                                            *)
(***************************************************************************)
EXTENDS Arrays

CONSTANTS
  Objects,    \* the list objects a script may create
  NameOrder,  \* the names it uses, in their order as strings
  Values,
  Lower       \* name -> the name in lower case

Names == ToSet(NameOrder)
Pairs == Names \X Values
Kinds == {"Headers", "FormData", "URLSearchParams"}

VARIABLES
  kinds,  \* object -> its class, "none" before it is made
  lists,  \* object -> its pairs
  bound   \* the URLSearchParams that belong to a URL

pairVars == <<kinds, lists, bound>>

\* The name under which a list of this kind keeps a pair.
Key(kind, name) == IF kind = "Headers" THEN Lower[name] ELSE name

Stored(kind) == {<<Key(kind, p[1]), p[2]>> : p \in Pairs}

Others(pairs, name) == Filtered(pairs, {p \in Pairs : p[1] # name})

Added(kind, pairs, name, value) == Append(pairs, <<Key(kind, name), value>>)

\* A set header is the last one; a set field or parameter stays at the place of
\* the first of its name.
Put(kind, pairs, name, value) ==
  LET n == Key(kind, name)
      at == {i \in DOMAIN pairs : pairs[i][1] = n}
  IN IF kind = "Headers" \/ at = {} THEN Append(Others(pairs, n), <<n, value>>)
     ELSE SubSeq(pairs, 1, Min(at) - 1) \o <<<<n, value>>>>
            \o Others(SubSeq(pairs, Min(at) + 1, Len(pairs)), n)

Rank(name) == CHOOSE i \in DOMAIN NameOrder : NameOrder[i] = name

\* Ordered by name, pairs of one name as they were.
IsInOrder(new, old) ==
  \E p \in [DOMAIN old -> DOMAIN old] :
    /\ \A i, j \in DOMAIN old : i < j =>
         \/ Rank(old[p[i]][1]) < Rank(old[p[j]][1])
         \/ old[p[i]][1] = old[p[j]][1] /\ p[i] < p[j]
    /\ new = [i \in DOMAIN old |-> old[p[i]]]

\* What a method of a list may leave of its pairs.
Method(kind, old, new) ==
  \/ \E name \in Names :
       \/ new = Others(old, Key(kind, name))
       \/ \E value \in Values :
            \/ new = Added(kind, old, name, value)
            \/ new = Put(kind, old, name, value)
            \/ kind = "URLSearchParams" /\ new = Filtered(old, Pairs \ {<<name, value>>})
  \/ kind = "URLSearchParams" /\ IsInOrder(new, old)

Only(o) ==
  /\ lists' = [lists EXCEPT ![o] = lists'[o]]
  /\ kinds' = [kinds EXCEPT ![o] = kinds'[o]]

Create(o) ==
  /\ Only(o)
  /\ kinds[o] = "none" /\ kinds'[o] \in Kinds
  /\ lists'[o] \in Seq(Stored(kinds'[o]))
  /\ bound' \in {bound, bound \cup {o}}

CallMethod(o) ==
  /\ Only(o)
  /\ kinds[o] # "none" /\ kinds'[o] = kinds[o]
  /\ Method(kinds[o], lists[o], lists'[o])
  /\ UNCHANGED bound

\* The URL an object belongs to was given another query.
Load(o) ==
  /\ Only(o)
  /\ o \in bound
  /\ lists'[o] \in Seq(Pairs)
  /\ UNCHANGED <<kinds, bound>>

PairsInit ==
  kinds = [o \in Objects |-> "none"] /\ lists = [o \in Objects |-> <<>>] /\ bound = {}

PairsNext == \E o \in Objects : Create(o) \/ CallMethod(o) \/ Load(o)

PairsSpec == PairsInit /\ [][PairsNext]_pairVars
=============================================================================
