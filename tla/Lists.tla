--------------------------------- MODULE Lists ---------------------------------
(***************************************************************************)
(* Headers and FormData (src/worker.rs) and URLSearchParams                *)
(* (src/runtime/url.rs).  Each keeps its pairs in this._list, an array of  *)
(* two-element arrays: some methods change that array or an entry in       *)
(* place, some replace the array by a filtered one that shares its         *)
(* entries, and a for-of loop keeps the array it began with.  So entries   *)
(* have an identity here: an array is a sequence of indices into `entry`.  *)
(***************************************************************************)
EXTENDS Arrays

CONSTANTS
  Objects, NameOrder, Values, Lower,
  NoObject,
  MaxEntries  \* bound: entries ever made

Names == ToSet(NameOrder)
Pairs == Names \X Values
Classes == {"Headers", "FormData", "URLSearchParams"}

ASSUME NamesAssumption == NameOrder \in Seq(Names) /\ IsInjective(NameOrder)
ASSUME LowerAssumption ==
  Lower \in [Names -> Names] /\ \A n \in Names : Lower[Lower[n]] = Lower[n]
ASSUME ListsAssumption == NoObject \notin Objects /\ MaxEntries \in Nat

VARIABLES
  class,  \* object -> its class, "none" before it is made
  list,   \* object -> the array in _list
  entry,  \* the entries made so far
  walk    \* a loop over an object's pairs, the script's code between its steps

listVars == <<class, list, entry, walk>>

\* The pairs an object shows.
View(o) == [i \in DOMAIN list[o] |-> entry[list[o][i]]]

Key(o, name) == IF class[o] = "Headers" THEN Lower[name] ELSE name
Entries == 1 .. MaxEntries

NoWalk == [of |-> NoObject, live |-> FALSE, array |-> <<>>, start |-> <<>>, yielded |-> <<>>,
           sorted |-> FALSE]

\* No entry is in two arrays that objects hold, nor twice in one.
ListsTypeOK ==
  /\ class \in [Objects -> Classes \cup {"none"}]
  /\ entry \in Seq(Pairs) /\ Len(entry) <= MaxEntries
  /\ list \in [Objects -> Seq(1 .. Len(entry))]
  /\ \A o, p \in Objects : \A i \in DOMAIN list[o], j \in DOMAIN list[p] :
       list[o][i] = list[p][j] => o = p /\ i = j
  /\ walk.of \in Objects \cup {NoObject}
  /\ {walk.live, walk.sorted} \subseteq BOOLEAN
  /\ {walk.array, walk.start, walk.yielded} \subseteq Seq(Entries)

ListsInit ==
  /\ class = [o \in Objects |-> "none"]
  /\ list = [o \in Objects |-> <<>>]
  /\ entry = <<>>
  /\ walk = NoWalk

-----------------------------------------------------------------------------
(* The array of an object, changed in place or replaced.                    *)

\* The entries of this name.
Named(name) == {e \in DOMAIN entry : entry[e][1] = name}

Without(array, name) == Filtered(array, DOMAIN entry \ Named(name))

\* entry' has the new entries at its end.
Push(pairs) == Len(entry) + Len(pairs) <= MaxEntries /\ entry' = entry \o pairs

Pushed(array, n) == array \o [i \in 1 .. n |-> Len(entry) + i]

InPlace(o, array) ==
  /\ list' = [list EXCEPT ![o] = array]
  /\ UNCHANGED walk

\* A loop that reads the old array goes on with it.
Replace(o, array) ==
  /\ list' = [list EXCEPT ![o] = array]
  /\ walk' = IF walk.of = o /\ walk.live
             THEN [walk EXCEPT !.live = FALSE, !.array = list[o]] ELSE walk

-----------------------------------------------------------------------------
(* Constructors.                                                            *)

\* new X(pairs); FormData takes none.
Construct(o, c, pairs) ==
  LET stored == IF c = "Headers" THEN [i \in DOMAIN pairs |-> <<Lower[pairs[i][1]], pairs[i][2]>>]
                ELSE pairs
  IN
  /\ class[o] = "none" /\ (c = "FormData" => pairs = <<>>)
  /\ class' = [class EXCEPT ![o] = c]
  /\ Push(stored)
  /\ InPlace(o, Pushed(<<>>, Len(pairs)))

\* new X(x): the entries are copied.  Variant: only the array is.
Copy_Shallow(o, from) ==
  /\ class[from] \in {"Headers", "URLSearchParams"} /\ class[o] = "none"
  /\ class' = [class EXCEPT ![o] = class[from]]
  /\ InPlace(o, list[from])
  /\ UNCHANGED entry

Copy(o, from) ==
  /\ class[from] \in {"Headers", "URLSearchParams"}
  /\ Construct(o, class[from], View(from))

-----------------------------------------------------------------------------
(* Methods of an object.                                                    *)

AppendPair(o, name, value) ==
  /\ class[o] # "none"
  /\ Push(<<<<Key(o, name), value>>>>)
  /\ InPlace(o, Pushed(list[o], 1))
  /\ UNCHANGED class

\* Headers: out with the old ones, then the new one at the end.
SetHeader(o, name, value) ==
  /\ class[o] = "Headers"
  /\ Push(<<<<Lower[name], value>>>>)
  /\ Replace(o, Pushed(Without(list[o], Lower[name]), 1))
  /\ UNCHANGED class

\* FormData and URLSearchParams: the first one is changed in place, so loops and
\* filtered arrays see it, and the later ones are filtered out.
At(o, name) == {i \in DOMAIN list[o] : entry[list[o][i]][1] = name}

SetFirst(o, name, value) ==
  LET first == Min(At(o, name)) IN
  /\ class[o] \in {"FormData", "URLSearchParams"}
  /\ \/ /\ At(o, name) = {}
        /\ AppendPair(o, name, value)
     \/ /\ At(o, name) # {}
        /\ entry' = [entry EXCEPT ![list[o][first]][2] = value]
        /\ Replace(o, SubSeq(list[o], 1, first)
                        \o Without(SubSeq(list[o], first + 1, Len(list[o])), name))
        /\ UNCHANGED class

\* Variant: the entries are taken out of the array itself.
Delete_Splices(o, name) ==
  /\ class[o] # "none"
  /\ InPlace(o, Without(list[o], Key(o, name)))
  /\ UNCHANGED <<class, entry>>

Delete(o, name) ==
  /\ class[o] # "none"
  /\ Replace(o, Without(list[o], Key(o, name)))
  /\ UNCHANGED <<class, entry>>

DeletePair(o, pair) ==
  /\ class[o] = "URLSearchParams"
  /\ Replace(o, Filtered(list[o], {e \in DOMAIN entry : entry[e] # pair}))
  /\ UNCHANGED <<class, entry>>

\* Array.prototype.sort: in place and stable.
Sort(o) ==
  LET sorted == FlattenSeq([i \in DOMAIN NameOrder |-> Filtered(list[o], Named(NameOrder[i]))])
  IN
  /\ class[o] = "URLSearchParams"
  /\ list' = [list EXCEPT ![o] = sorted]
  /\ walk' = IF walk.of = o /\ walk.live /\ sorted # list[o]
             THEN [walk EXCEPT !.sorted = TRUE] ELSE walk
  /\ UNCHANGED <<class, entry>>

-----------------------------------------------------------------------------
(* entries, keys, values and forEach: a for-of loop over the array, with    *)
(* the caller's code between two steps of it.                               *)

WalkBegins(o) ==
  /\ class[o] # "none" /\ walk = NoWalk
  /\ walk' = [NoWalk EXCEPT !.of = o, !.live = TRUE, !.start = list[o]]
  /\ UNCHANGED <<class, list, entry>>

WalkSteps ==
  LET array == IF walk.live THEN list[walk.of] ELSE walk.array
      n == Len(walk.yielded)
  IN
  /\ walk # NoWalk
  /\ walk' = IF n < Len(array) THEN [walk EXCEPT !.yielded = Append(@, array[n + 1])] ELSE NoWalk
  /\ UNCHANGED <<class, list, entry>>

Method(o) ==
  \/ \E pair \in Pairs :
       \/ AppendPair(o, pair[1], pair[2]) \/ SetHeader(o, pair[1], pair[2])
       \/ SetFirst(o, pair[1], pair[2]) \/ DeletePair(o, pair)
  \/ \E name \in Names : Delete(o, name)
  \/ Sort(o)

-----------------------------------------------------------------------------
(* What a fetch sends of its headers: combine_headers, one value per name.  *)

\* A value is joined to the one before by the separator of its name.
Separator(name) == IF name = "cookie" THEN "; " ELSE ", "

\* Variant: a later value takes the place of an earlier one.
Carried_Last(all, pair) ==
  LET n == Lower[pair[1]]
  IN [m \in DOMAIN all \cup {n} |-> IF m = n THEN <<pair[2]>> ELSE all[m]]

\* The map of what is sent, with one more pair: an occupied entry, and a vacant one.
Carried(all, pair) ==
  LET n == Lower[pair[1]]
  IN [m \in DOMAIN all \cup {n} |->
        IF m # n THEN all[m]
        ELSE IF n \in DOMAIN all THEN all[n] \o <<Separator(n), pair[2]>> ELSE <<pair[2]>>]

Combined(pairs) ==
  LET upTo[i \in 0 .. Len(pairs)] == IF i = 0 THEN <<>> ELSE Carried(upTo[i - 1], pairs[i])
  IN upTo[Len(pairs)]

-----------------------------------------------------------------------------
(* Properties.                                                              *)

\* A loop over the pairs meets each pair that was there when it began, once and in
\* order, whatever the caller deletes, sets or appends between its steps; sorting
\* is the exception, it moves the entries under the loop.
LoopMeetsAll ==
  [][walk' = NoWalk /\ ~walk.sorted =>
       IsPrefix(walk.start, walk.yielded) /\ IsInjective(walk.yielded)]_listVars

\* The request carries every value of a repeated header, in the order of the list,
\* whatever the case its names were given in (combine_headers: "repeats are joined
\* as HTTP joins them").
NoHeaderLost ==
  \A o \in Objects : \A n \in {Lower[name] : name \in Names} :
    LET mine == Filtered(View(o), {p \in Pairs : Lower[p[1]] = n})
        sent == Combined(View(o))
    IN IF mine = <<>> THEN n \notin DOMAIN sent
       ELSE /\ Len(sent[n]) = 2 * Len(mine) - 1
            /\ \A i \in DOMAIN sent[n] :
                 sent[n][i] = IF i % 2 = 1 THEN mine[(i + 1) \div 2][2] ELSE Separator(n)
=============================================================================
