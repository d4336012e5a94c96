----------------------------- MODULE TextDecoding -----------------------------
(***************************************************************************)
(* The TextDecoder of src/runtime/text.rs: a text given to decode in       *)
(* pieces, with the bytes from a lead on whose character would be longer   *)
(* held back from one call to the next, against the decoding of the whole. *)
(*                                                                         *)
(* Bytes are numbers; a character of the output is the sequence of the     *)
(* bytes it stands for, U+FFFD is the empty one.                           *)
(***************************************************************************)
EXTENDS Integers, SequencesExt

CONSTANTS
  Bytes,     \* the bytes a script decodes
  MaxBytes,  \* bound: bytes given to one text
  MaxPiece   \* bound: bytes of one call

ASSUME BytesAssumption == Bytes \subseteq 0 .. 255
ASSUME BoundsAssumption == MaxBytes \in Nat /\ MaxPiece \in Nat

Pieces == BoundedSeq(Bytes, MaxPiece)

-----------------------------------------------------------------------------
(* Utf-8, as Rust's from_utf8 and from_utf8_lossy read it.                  *)

Replacement == <<>>
BOM == <<239, 187, 191>>

Continuation == 128 .. 191

\* How many bytes a character has that begins with b, 0 when none does.
Expected(b) ==
  CASE b \in 0 .. 127   -> 1
    [] b \in 194 .. 223 -> 2
    [] b \in 224 .. 239 -> 3
    [] b \in 240 .. 244 -> 4
    [] OTHER            -> 0

\* The second bytes that keep a character in range and unique.
Seconds(b) ==
  CASE b = 224 -> 160 .. 191
    [] b = 237 -> 128 .. 159
    [] b = 240 -> 144 .. 191
    [] b = 244 -> 128 .. 143
    [] OTHER   -> Continuation

\* The first k bytes of s could begin a character, or be one.
Begins(s, k) ==
  /\ k \in 1 .. Len(s) /\ k <= Expected(s[1])
  /\ k >= 2 => s[2] \in Seconds(s[1])
  /\ \A j \in 3 .. k : s[j] \in Continuation

\* from_utf8_lossy: a character, or one U+FFFD for the longest beginning of one.
CharSize(s) == Max({1} \cup {k \in 1 .. 4 : Begins(s, k)})

FirstChar(s) ==
  LET n == CharSize(s)
  IN IF Begins(s, n) /\ n = Expected(s[1]) THEN SubSeq(s, 1, n) ELSE Replacement

Decoded(s) ==
  LET from[i \in 1 .. Len(s) + 1] ==
        IF i > Len(s) THEN <<>>
        ELSE LET rest == SubSeq(s, i, Len(s))
             IN <<FirstChar(rest)>> \o from[i + CharSize(rest)]
  IN from[1]

Valid(s) == Replacement \notin ToSet(Decoded(s))

-----------------------------------------------------------------------------
VARIABLES
  fatal, ignoreBOM,  \* the decoder's options
  pending,           \* this._pending
  started,           \* this._started
  given,             \* history: the bytes of the text so far
  first,             \* history: how many of them the first call had
  begun,             \* history: there was a call for this text
  text,              \* history: the characters its calls returned
  ended,             \* history: the last call was not a streaming one
  threw,             \* history: a call for this text threw
  plain              \* history: this text began on a decoder not yet started

decoderVars == <<fatal, ignoreBOM, pending, started, given, first, begun, text, ended, threw, plain>>

\* What is held back is the end of what was given, begins with the lead of a longer
\* character, whatever follows that lead, and is nothing once a text ended.
DecoderTypeOK ==
  /\ {fatal, ignoreBOM, started, ended, threw, plain} \subseteq BOOLEAN
  /\ given \in Seq(Bytes) /\ first \in 0 .. MaxPiece /\ begun \in BOOLEAN
  /\ Len(pending) <= 3 /\ IsSuffix(pending, given)
  /\ pending # <<>> => Expected(pending[1]) > Len(pending)
  /\ ended => pending = <<>>

DecoderInit ==
  /\ fatal \in BOOLEAN /\ ignoreBOM \in BOOLEAN
  /\ pending = <<>> /\ started = FALSE
  /\ given = <<>> /\ first = 0 /\ begun = FALSE /\ text = <<>>
  /\ ended = FALSE /\ threw = FALSE /\ plain = TRUE

\* incomplete_tail: from the last lead byte among the last three, if its
\* character would go on.
IncompleteTail(s) ==
  LET leads == {b \in 1 .. Min({3, Len(s)}) : Expected(s[Len(s) - b + 1]) >= 2}
      back == Min(leads)
  IN IF leads # {} /\ Expected(s[Len(s) - back + 1]) > back THEN back ELSE 0

\* Variant: only the last byte is looked at.
Held_LastByte(s, stream) ==
  IF stream /\ s # <<>> /\ Expected(Last(s)) >= 2 THEN 1 ELSE 0

Held(s, stream) == IF stream THEN IncompleteTail(s) ELSE 0

\* Variant: a mark is removed wherever a call's text begins with one.
WithoutMark_Anywhere(chars) ==
  IF ~ignoreBOM /\ chars # <<>> /\ Head(chars) = BOM THEN Tail(chars) ELSE chars

WithoutMark(chars) ==
  IF ~ignoreBOM /\ ~started /\ chars # <<>> /\ Head(chars) = BOM THEN Tail(chars) ELSE chars

\* decode(piece, {stream}).  A fatal decoder throws after it replaced _pending
\* and before it would replace _started.
Decode(piece, stream) ==
  LET bytes == pending \o piece
      ready == Len(bytes) - Held(bytes, stream)
      chars == Decoded(SubSeq(bytes, 1, ready))
  IN
  /\ ~ended
  /\ Len(given) + Len(piece) <= MaxBytes
  /\ pending' = SubSeq(bytes, ready + 1, Len(bytes))
  /\ \/ /\ fatal /\ Replacement \in ToSet(chars)
        /\ threw' = TRUE
        /\ UNCHANGED <<started, text>>
     \/ /\ ~fatal \/ Replacement \notin ToSet(chars)
        /\ text' = text \o WithoutMark(chars)
        /\ started' = stream
        /\ UNCHANGED threw
  /\ given' = given \o piece
  /\ first' = IF ~begun THEN Len(piece) ELSE first
  /\ begun' = TRUE
  /\ ended' = ~stream
  /\ UNCHANGED <<fatal, ignoreBOM, plain>>

NoText == given' = <<>> /\ first' = 0 /\ begun' = FALSE /\ text' = <<>> /\ ended' = FALSE /\ threw' = FALSE

\* decode() forgets what it held back and returns the empty string.
Reset ==
  /\ pending' = <<>> /\ started' = FALSE /\ plain' = TRUE
  /\ NoText
  /\ UNCHANGED <<fatal, ignoreBOM>>

\* The decoder is used for another text; only the history begins anew.
NextText ==
  /\ ended
  /\ plain' = ~started
  /\ NoText
  /\ UNCHANGED <<fatal, ignoreBOM, pending, started>>

DecoderNext ==
  \/ \E piece \in Pieces, stream \in BOOLEAN : Decode(piece, stream)
  \/ Reset
  \/ NextText

DecoderSpec == DecoderInit /\ [][DecoderNext]_decoderVars

-----------------------------------------------------------------------------
(* Properties.                                                              *)

\* What decoding the whole text at once would return.
Whole ==
  LET chars == Decoded(given)
  IN IF ~ignoreBOM /\ chars # <<>> /\ Head(chars) = BOM THEN Tail(chars) ELSE chars

\* The mark came in more than one call: _started is set by the first call, which
\* had no text to look at, and the mark stays in the text.
MarkSplit == ~ignoreBOM /\ first < Len(BOM) /\ IsPrefix(BOM, given)

\* However a text is cut into pieces, valid or not, the characters returned so far
\* and those of the bytes held back are the characters of the whole (text.rs: a
\* sequence split across chunks waits for the rest instead of decoding to
\* U+FFFD), but for a mark that was split and after a fatal error.
PiecesMakeTheWhole ==
  plain /\ ~threw /\ ~MarkSplit => text \o Decoded(pending) = Whole

\* By the end of a text a fatal decoder has thrown exactly when the whole is
\* invalid: holding bytes back neither hides an error nor makes one.
FatalIsExact == fatal /\ ended => (threw <=> ~Valid(given))
=============================================================================
