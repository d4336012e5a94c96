--------------------------------- MODULE Arrays ---------------------------------
(***************************************************************************)
(* Array.prototype.filter, which the list classes of src/worker.rs and     *)
(* src/runtime/url.rs are built on.  A recursive function, so that it can  *)
(* be reasoned about.                                                      *)
(***************************************************************************)
EXTENDS Integers, SequencesExt

\* What of the array is in S, in the order of the array.
Filtered(array, S) ==
  LET upTo[i \in 0 .. Len(array)] ==
        IF i = 0 THEN <<>>
        ELSE IF array[i] \in S THEN Append(upTo[i - 1], array[i]) ELSE upTo[i - 1]
  IN upTo[Len(array)]
=============================================================================
