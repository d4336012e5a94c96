--------------------------------- MODULE MCData ---------------------------------
(***************************************************************************)
(* The script-side data classes in one instance: the streaming             *)
(* TextDecoder, the pair lists with URL, and base64.  They share nothing,  *)
(* so each behaviour is one of them alone.                                 *)
(***************************************************************************)
EXTENDS TextDecoding, Url, Base64

VARIABLE part

mcVars == <<part, decoderVars, urlVars, base64Vars>>

MCNameOrder == <<"A", "a", "cookie">>
MCLower == [n \in ToSet(MCNameOrder) |-> IF n = "A" THEN "a" ELSE n]
MCSymmetry == Permutations(Objects)

\* The parts that are not run stay as they begin, in one state of them.
DecoderIdle == fatal = FALSE /\ ignoreBOM = FALSE
Base64Idle == data = <<>>

MCInit ==
  /\ DecoderInit /\ UrlInit /\ Base64Init
  /\ \/ part = "decoder" /\ Base64Idle
     \/ part \in {"lists", "loops", "link", "setters"} /\ DecoderIdle /\ Base64Idle
     \/ part = "base64" /\ DecoderIdle

\* Lists without a URL, two of different classes with less in them, since no method
\* has to do with another class; loops over one object; a URL with parameters, the
\* other parts of it fixed; and the setters of all parts, without parameters.
\* Loops see two values of one name, and a URL no names that differ in case.
OneClass == Cardinality({class'[o] : o \in Objects} \ {"none"}) <= 1
OneObject == Cardinality({o \in Objects : class'[o] # "none"}) <= 1
NoUrl == UNCHANGED <<parts, params>>
FewPairs == \A pair \in ToSet(entry') : pair[1] = "a" \/ pair[2] \notin Unpaired
NoLoop == walk' = NoWalk /\ (OneClass \/ Len(entry') <= 3)
Link ==
  /\ Len(entry') <= 3 /\ walk' = NoWalk
  /\ \A pair \in ToSet(entry') : pair[1] # "A"
  /\ \A o \in Objects : class'[o] \in {"none", "URLSearchParams"}
  /\ \A u \in Urls : parts'[u] # <<>> => parts'[u].port = NoPort /\ parts'[u].hash = 0
                                              /\ parts'[u].path = 0 /\ ~parts'[u].opaque
Setters == UNCHANGED <<listVars, params>>

MCNext ==
  /\ UNCHANGED part
  /\ \/ part = "decoder" /\ DecoderNext /\ UNCHANGED <<urlVars, base64Vars>>
     \/ /\ UNCHANGED <<decoderVars, base64Vars>>
        /\ \/ part = "lists" /\ NoUrl /\ UrlNext /\ NoLoop
           \/ part = "loops" /\ NoUrl /\ UrlNext /\ OneObject /\ FewPairs /\ Len(entry') <= 3
           \/ part = "link" /\ UrlNext /\ Link
           \/ part = "setters" /\ Setters /\ UrlNext
     \/ part = "base64" /\ Base64Next /\ UNCHANGED <<decoderVars, urlVars>>

\* The types of the parts, and what their methods rely on: no entry of a pair is in
\* two arrays that objects hold, the parameters of a URL are a URLSearchParams, and the
\* decoder holds back at most three bytes, the last ones it was given, of which the
\* first is the lead of a longer character.
DataTypeOK == DecoderTypeOK /\ ListsTypeOK /\ UrlTypeOK

MCSpec == MCInit /\ [][MCNext]_mcVars
=============================================================================
