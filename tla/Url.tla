---------------------------------- MODULE Url ----------------------------------
(***************************************************************************)
(* The URL class of src/runtime/url.rs and its searchParams: the query of  *)
(* a URL is kept twice, in this._parts and as the list of the parameters   *)
(* object once one was asked for, and each side writes to the other.       *)
(*                                                                         *)
(* Parsing and serializing are the url crate's: a query is the sequence of *)
(* its pairs, and `path` and `hash` each stand for the parts that nothing  *)
(* here depends on.  A string with a lone surrogate does not pass from a   *)
(* script to a native function: the call throws.  A list may hold one, and *)
(* then it has no serialization; no query of a URL does.                   *)
(***************************************************************************)
EXTENDS Lists

CONSTANTS
  Urls,      \* the URL objects a script may create
  Hosts,     \* valid host names
  Ports,     \* valid ports
  NoPort,
  Invalid,   \* a host or a port that does not parse
  Unpaired,  \* values with a lone surrogate
  MaxQuery   \* bound: pairs a script gives to a constructor or a URL

ASSUME UrlAssumption ==
  NoPort \notin Ports /\ Invalid \notin Hosts \cup Ports \cup {NoPort} /\ MaxQuery \in Nat

VARIABLES
  parts,   \* url -> _parts, or {} before it is made
  params   \* url -> _params

urlVars == <<listVars, parts, params>>

\* cannot_be_a_base: such a URL has no host, and its path is left alone.
Opaque == [opaque : {TRUE}, host : {Invalid}, port : {NoPort}, path : {0}]
Based  == [opaque : {FALSE}, host : Hosts, port : Ports \cup {NoPort}, path : 0 .. 1]

Given == BoundedSeq(Pairs, MaxQuery)

\* __urlencoded_serialize takes these pairs.
Encodable(pairs) == \A i \in DOMAIN pairs : pairs[i][2] \notin Unpaired

Query == {pairs \in Given : Encodable(pairs)}

With(base, query, hash) ==
  [opaque |-> base.opaque, host |-> base.host, port |-> base.port, path |-> base.path,
   query |-> query, hash |-> hash]

UrlTypeOK ==
  /\ \A u \in Urls : \/ parts[u] = <<>> /\ params[u] = NoObject
                     \/ \E base \in Opaque \cup Based :
                          parts[u] = With(base, parts[u].query, parts[u].hash)
  /\ params \in [Urls -> Objects \cup {NoObject}]
  /\ \A u, v \in Urls : u # v /\ params[u] # NoObject => params[u] # params[v]
  /\ \A u \in Urls : params[u] # NoObject => class[params[u]] = "URLSearchParams"

UrlInit ==
  /\ ListsInit
  /\ parts = [u \in Urls |-> <<>>]
  /\ params = [u \in Urls |-> NoObject]

Made(u) == parts[u] # <<>>

-----------------------------------------------------------------------------
(* Parameters write to their URL.                                           *)

\* _update: after append, delete, set and sort, which have changed the list, the URL
\* is given it.  Where toString throws so does the method, and the URL keeps its query.
Update(o) ==
  parts' = [u \in Urls |-> IF params[u] = o /\ Encodable(View(o)')
                           THEN [parts[u] EXCEPT !.query = View(o)'] ELSE parts[u]]

CallMethod(o) ==
  /\ Method(o)
  /\ IF class[o] = "URLSearchParams" THEN Update(o) ELSE UNCHANGED parts
  /\ UNCHANGED params

-----------------------------------------------------------------------------
(* A URL writes to its parameters.                                          *)

\* _reload: the list is replaced, entries and all, and a loop keeps the old one.
Reload(u, query) ==
  \/ params[u] = NoObject /\ UNCHANGED listVars
  \/ /\ params[u] # NoObject
     /\ Push(query)
     /\ Replace(params[u], Pushed(<<>>, Len(query)))
     /\ UNCHANGED class

NewUrl(u, new) ==
  /\ ~Made(u)
  /\ parts' = [parts EXCEPT ![u] = new]
  /\ UNCHANGED <<listVars, params>>

\* A string that does not parse, or does not pass, makes the setter throw before it
\* changes anything.
SetHref(u, new) ==
  /\ Made(u)
  /\ parts' = [parts EXCEPT ![u] = new]
  /\ Reload(u, new.query)
  /\ UNCHANGED params

\* Variant: the parameters are not told.
SetSearch_Alone(u, query) ==
  /\ Made(u)
  /\ parts' = [parts EXCEPT ![u].query = query]
  /\ UNCHANGED <<listVars, params>>

SetSearch(u, query) ==
  /\ Made(u)
  /\ parts' = [parts EXCEPT ![u].query = query]
  /\ Reload(u, query)
  /\ UNCHANGED params

\* The getter makes the object once.
SearchParams(u, o) ==
  /\ Made(u) /\ params[u] = NoObject
  /\ Construct(o, "URLSearchParams", parts[u].query)
  /\ params' = [params EXCEPT ![u] = o]
  /\ UNCHANGED parts

-----------------------------------------------------------------------------
(* The other setters: apply, one part and a value for it.                   *)

SetPart(u, new) ==
  /\ parts' = [parts EXCEPT ![u] = new]
  /\ UNCHANGED <<listVars, params>>

\* host with a port, as in "h:80".  An invalid host ends it; then an invalid port
\* counts as none.
SetHost(u, host, port) ==
  /\ Made(u)
  /\ IF parts[u].opaque \/ host = Invalid THEN SetPart(u, parts[u])
     ELSE SetPart(u, [parts[u] EXCEPT !.host = host,
                                      !.port = IF port = Invalid THEN NoPort ELSE port])

\* hostname, and host without a port.
SetHostname(u, host) ==
  /\ Made(u)
  /\ IF parts[u].opaque \/ host = Invalid THEN SetPart(u, parts[u])
     ELSE SetPart(u, [parts[u] EXCEPT !.host = host])

\* The empty string removes the port.
SetPort(u, port) ==
  /\ Made(u)
  /\ IF parts[u].opaque \/ port = Invalid THEN SetPart(u, parts[u])
     ELSE SetPart(u, [parts[u] EXCEPT !.port = port])

SetPath(u, path) ==
  /\ Made(u)
  /\ IF parts[u].opaque THEN SetPart(u, parts[u])
     ELSE SetPart(u, [parts[u] EXCEPT !.path = path])

SetHash(u, hash) ==
  /\ Made(u)
  /\ SetPart(u, [parts[u] EXCEPT !.hash = hash])

SetOther(u) ==
  \/ \E host \in Hosts \cup {Invalid} :
       \/ SetHostname(u, host)
       \/ \E port \in Ports \cup {Invalid} : SetHost(u, host, port)
  \/ \E port \in Ports \cup {NoPort, Invalid} : SetPort(u, port)
  \/ \E n \in 0 .. 1 : SetPath(u, n) \/ SetHash(u, n)

-----------------------------------------------------------------------------
UrlLoads(u) ==
  \E query \in Query :
    \/ \E base \in Opaque \cup Based, hash \in 0 .. 1 :
         LET new == With(base, query, hash) IN NewUrl(u, new) \/ SetHref(u, new)
    \/ SetSearch(u, query)

Constructor(o) ==
  /\ \/ \E c \in Classes, pairs \in Given : Construct(o, c, pairs)
     \/ \E from \in Objects : Copy(o, from)
  /\ UNCHANGED <<parts, params>>

Walk ==
  /\ WalkSteps \/ \E o \in Objects : WalkBegins(o)
  /\ UNCHANGED <<parts, params>>

UrlNext ==
  \/ \E o \in Objects : Constructor(o) \/ CallMethod(o)
  \/ Walk
  \/ \E u \in Urls : UrlLoads(u) \/ SetOther(u) \/ \E o \in Objects : SearchParams(u, o)

UrlSpec == UrlInit /\ [][UrlNext]_urlVars

-----------------------------------------------------------------------------
(* Properties.                                                              *)

Promise ==
  INSTANCE PairLists WITH kinds <- class, lists <- [o \in Objects |-> View(o)],
                          bound <- {params[u] : u \in Urls} \ {NoObject}

\* Each object is a list of its own: a method changes the pairs of the object it is
\* called on and of no other, as PairLists says, although entries are changed in
\* place and arrays, loops and copies (new Headers(headers), new
\* URLSearchParams(params)) are made from those of other objects.
KeepsPromise == Promise!PairsSpec

\* The two copies of a query agree: what url.searchParams lists is the query of
\* url.href, whichever side was written last, whatever was done to copies of the
\* parameters, which belong to no URL, and whichever methods threw before.  Only a
\* list that has no serialization is not what the URL has, and the first method that
\* makes it serializable again brings the two together.
LinkAgrees ==
  \A u \in Urls :
    params[u] # NoObject /\ Encodable(View(params[u])) => View(params[u]) = parts[u].query
=============================================================================
