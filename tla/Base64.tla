--------------------------------- MODULE Base64 ---------------------------------
(***************************************************************************)
(* btoa and atob of src/runtime/base64.rs, and a script that edits what    *)
(* btoa returned before it gives it to atob.                               *)
(*                                                                         *)
(* A character of a base64 text is the number it stands for, or one of     *)
(* three others: the padding, white space, and any that is not base64.     *)
(***************************************************************************)
EXTENDS Arrays

CONSTANTS
  Units,     \* code units of the strings given to btoa
  MaxUnits,  \* bound: the length of such a string
  MaxEdits   \* bound: edits of one text

ASSUME UnitsAssumption ==
  /\ Units \subseteq Nat
  /\ MaxUnits \in Nat /\ MaxEdits \in Nat

Sextets == 0 .. 63
Padding == 64
Space == 65
Other == 66
Characters == 0 .. 66

None == <<-1>>   \* Option::None, on which the script's function throws

VARIABLES
  data,    \* the string
  coded,   \* what btoa returned, with the edits made since
  edits,
  damaged  \* an edit other than white space or leaving out the padding was made

base64Vars == <<data, coded, edits, damaged>>

-----------------------------------------------------------------------------
\* Element i of s, 0 beyond its end.
At0(s, i) == IF i <= Len(s) THEN s[i] ELSE 0

\* The 24 bits of the three bytes, or of the four sextets, of s from i on, and such
\* bits as bytes and as sextets.
BitsOfBytes(s, i) == 65536 * At0(s, i) + 256 * At0(s, i + 1) + At0(s, i + 2)
BitsOfSextets(s, i) ==
  262144 * At0(s, i) + 4096 * At0(s, i + 1) + 64 * At0(s, i + 2) + At0(s, i + 3)

AsBytes(bits) == <<bits \div 65536, (bits \div 256) % 256, bits % 256>>
AsSextets(bits) ==
  <<bits \div 262144, (bits \div 4096) % 64, (bits \div 64) % 64, bits % 64>>

\* Bytes as sextets and back.  Of a last group that is not full those sextets are
\* made that have a bit of a byte, and those bytes that have all their bits.
ToSextets(s) ==
  [i \in 1 .. (4 * Len(s) + 2) \div 3 |->
     AsSextets(BitsOfBytes(s, 3 * ((i - 1) \div 4) + 1))[((i - 1) % 4) + 1]]
ToBytes(s) ==
  [i \in 1 .. (3 * Len(s)) \div 4 |->
     AsBytes(BitsOfSextets(s, 4 * ((i - 1) \div 3) + 1))[((i - 1) % 3) + 1]]

\* encode: None for a code unit that is no byte.
Btoa(s) ==
  IF \E i \in DOMAIN s : s[i] > 255 THEN None
  ELSE ToSextets(s) \o [i \in 1 .. (4 - (Len(ToSextets(s)) % 4)) % 4 |-> Padding]

Unspaced(s) == Filtered(s, Characters \ {Space})

\* Up to two padding characters go, from a text of whole groups only.
Unpadded(s) ==
  LET pad == IF Len(s) % 4 # 0 \/ s = <<>> \/ Last(s) # Padding THEN 0
             ELSE IF s[Len(s) - 1] = Padding THEN 2 ELSE 1
  IN SubSeq(s, 1, Len(s) - pad)

\* Variants: one padding character goes; characters other than base64's are skipped.
Stripped_One(s) ==
  LET t == Unspaced(s)
  IN IF Len(t) % 4 = 0 /\ t # <<>> /\ Last(t) = Padding THEN Front(t) ELSE t

Stripped_Lenient(s) == Filtered(s, Sextets)

Stripped(s) == Unpadded(Unspaced(s))

\* decode: a group of one character, or a character that is not base64, is an
\* error; the bits left over in the last group are dropped.
Atob(s) ==
  LET digits == Stripped(s) IN
  IF Len(digits) % 4 = 1 \/ ~(ToSet(digits) \subseteq Sextets) THEN None
  ELSE ToBytes(digits)

-----------------------------------------------------------------------------
Base64Init ==
  /\ data \in BoundedSeq(Units, MaxUnits) /\ coded = Btoa(data)
  /\ edits = 0 /\ damaged = FALSE

Edit(new) ==
  /\ coded # None /\ edits < MaxEdits
  /\ coded' = new /\ edits' = edits + 1
  /\ UNCHANGED data

Spread(i) == Edit(InsertAt(coded, i, Space)) /\ UNCHANGED damaged

LeaveOutPadding ==
  /\ Padding \in ToSet(coded)
  /\ Edit(Filtered(coded, Characters \ {Padding}))
  /\ UNCHANGED damaged

Damage(i, c) == Edit(InsertAt(coded, i, c)) /\ damaged' = TRUE

Base64Next ==
  \/ \E i \in 1 .. Len(coded) + 1 :
       Spread(i) \/ \E c \in {0, 17, Padding, Other} : Damage(i, c)
  \/ LeaveOutPadding

Base64Spec == Base64Init /\ [][Base64Next]_base64Vars

-----------------------------------------------------------------------------
(* Properties.                                                              *)

\* What btoa returned atob turns back into the string, also when the text was
\* broken into lines or lost its padding on the way (base64.rs:5).
AtobUndoesBtoa == coded # None /\ ~damaged => Atob(coded) = data

\* Of any other text atob invents nothing: what it accepts is base64 of the string
\* it returns, up to the bits of the last group that it drops.
AtobAcceptsBase64 ==
  coded # None /\ Atob(coded) # None =>
    LET back == Stripped(Btoa(Atob(coded)))
        read == Unspaced(coded)
    IN /\ Len(back) = 0 \/ IsPrefix(Front(back), read)
       /\ Len(read) - Len(back) \in 0 .. 2
       /\ \A i \in Len(back) + 1 .. Len(read) : read[i] = Padding /\ Len(read) % 4 = 0
=============================================================================
