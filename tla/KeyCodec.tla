------------------------------ MODULE KeyCodec ------------------------------
(***************************************************************************)
(* The key codec: a public key read from a string in one of its encodings  *)
(* (parse_pubkey: raw bytes, hex, base64, base32z, told apart by length    *)
(* and alphabet, the all-zero key when none fits), the strict loaders that *)
(* throw (load_from_hex, load_from_bytes), and the formats (to_hex,        *)
(* mnode_address).                                                         *)
(*                                                                         *)
(* A string is a sequence of character codes and a key a sequence of       *)
(* KeyBytes bytes.  The three text encodings are one codec over an         *)
(* alphabet of 2^w characters, each standing for w bits: the codec is      *)
(* modelled by its bits and the keys have their 32 bytes, so that the      *)
(* lengths the code compares with (64, 43, 44, 52) are checked against     *)
(* what the encoders produce and the decoders write.                       *)
(***************************************************************************)
EXTENDS Integers, Sequences, FiniteSets, SequencesExt

CONSTANTS
    Keys,          \* bound of the model: the keys that are formatted
    Inputs,        \* bound of the model: the strings that arrive
    Nil

VARIABLES
    at,            \* "wire": a string to read; "object": a key; "thrown"
    wire,          \* the string
    key,           \* the key read from it, Nil before
    written,       \* history: the bytes the decoder wrote into the key
    sent           \* history: the key the string was formatted from, or Nil

vars == <<at, wire, key, written, sent>>

-----------------------------------------------------------------------------
(* Bits and alphabets (bmq/hex.h, bmq/base64.h, bmq/base32z.h)             *)

CeilDiv(a, b) == (a + b - 1) \div b

Digits(n, w) == [j \in 1..w |-> (n \div 2^(w - j)) % 2]

Number(bits) == FoldLeft(LAMBDA a, b : 2 * a + b, 0, bits)

\* Numbers of `from` bits each as numbers of `to` bits each; the bits left
\* over are filled up with zeros (encoding) or dropped (decoding).
Regrouped(ns, from, to, fill) ==
    LET bits == FlattenSeq([i \in DOMAIN ns |-> Digits(ns[i], from)])
            \o [i \in 1..(to - 1) |-> 0]
        n == IF fill THEN CeilDiv(Len(ns) * from, to) ELSE (Len(ns) * from) \div to
    IN  [g \in 1..n |-> Number(SubSeq(bits, (g - 1) * to + 1, g * to))]

Codes(first, last) == [i \in 1..(last - first + 1) |-> first + i - 1]

Hex     == Codes(48, 57) \o Codes(97, 102)
Base64  == Codes(65, 90) \o Codes(97, 122) \o Codes(48, 57) \o <<43, 47>>
Base32z == <<121, 98, 110, 100, 114, 102, 103, 56, 101, 106, 107, 109, 99, 112,
             113, 120, 111, 116, 49, 117, 119, 105, 115, 122, 97, 51, 52, 53,
             104, 55, 54, 57>>
Pad     == 61
Lower(s) == [i \in DOMAIN s |-> IF s[i] \in 65..90 THEN s[i] + 32 ELSE s[i]]

IsIn(s, alphabet) == ToSet(s) \subseteq ToSet(alphabet)

Text(bytes, alphabet, w) ==
    LET ns == Regrouped(bytes, 8, w, TRUE) IN [i \in DOMAIN ns |-> alphabet[ns[i] + 1]]

Bytes(s, alphabet, w) ==
    Regrouped([i \in DOMAIN s |-> SelectInSeq(alphabet, LAMBDA c : c = s[i]) - 1],
              w, 8, FALSE)

\* One or two '=' at the end, when they fill the string up to groups of 4.
Pads(s) ==
    Cardinality({n \in 1..2 : /\ Len(s) % 4 = 0
                              /\ Len(s) >= n
                              /\ \A i \in (Len(s) - n + 1)..Len(s) : s[i] = Pad})

WithItsPads(s) == s

\* The string without them.
Body(s) == SubSeq(s, 1, Len(s) - Pads(s))

is_hex(s)     == IsIn(Lower(s), Hex)
is_base64(s)  == IsIn(Body(s), Base64)
is_base32z(s) == IsIn(Lower(s), Base32z)

from_hex(s)     == Bytes(Lower(s), Hex, 4)
from_base64(s)  == Bytes(Body(s), Base64, 6)
from_base32z(s) == Bytes(Lower(s), Base32z, 5)

to_base64(bytes) ==
    LET text == Text(bytes, Base64, 6)
    IN  text \o [i \in 1..((-Len(text)) % 4) |-> Pad]

to_base32z(bytes) == Text(bytes, Base32z, 5)

-----------------------------------------------------------------------------
(* The codec of keys                                                       *)

to_hex(bytes) == Text(bytes, Hex, 4)

Suffix == <<46, 109, 110, 111, 100, 101>>      \* ".mnode"

mnode_address(k) == to_base32z(k) \o Suffix

\* static_assert(pk.size() == 32)
KeyBytes == 32

\* T pk{}
Zero == [i \in 1..KeyBytes |-> 0]

\* What a decoder given pk.begin() leaves in pk.
Into(pk, bytes) == bytes \o SubSeq(pk, Len(bytes) + 1, Len(pk))

Base32zSizeOffByOne == 51

HexSize          == 64
Base64Size       == 43
Base64PaddedSize == 44
Base32zSize      == 52

\* The bytes parse_pubkey reads from `in`: the first encoding that fits,
\* and nothing when none does.
Payload(in) ==
    IF Len(in) = KeyBytes THEN in
    ELSE IF Len(in) = HexSize /\ is_hex(in) THEN from_hex(in)
    ELSE IF /\ \/ Len(in) = Base64Size
               \/ Len(in) = Base64PaddedSize /\ Last(in) = Pad
            /\ is_base64(in) THEN from_base64(in)
    ELSE IF Len(in) = Base32zSize /\ is_base32z(in) THEN from_base32z(in)
    ELSE <<>>

Read(bytes) ==
    /\ at' = "object"
    /\ key' = Into(Zero, bytes)
    /\ written' = Len(bytes)
    /\ UNCHANGED <<wire, sent>>

Throw ==
    /\ at' = "thrown"
    /\ UNCHANGED <<wire, key, written, sent>>

parse_pubkey ==
    /\ at = "wire"
    /\ Read(Payload(wire))

\* Mutant: the length of the string is not compared with the key's.
load_from_hex_of_any_size ==
    /\ at = "wire"
    /\ IF is_hex(wire) /\ Len(wire) % 2 = 0 THEN Read(from_hex(wire)) ELSE Throw

\* T::from_hex(hex)
load_from_hex ==
    /\ at = "wire"
    /\ IF is_hex(wire) /\ Len(wire) = 2 * KeyBytes THEN Read(from_hex(wire)) ELSE Throw

\* T::from_bytes(bytes)
load_from_bytes ==
    /\ at = "wire"
    /\ IF Len(wire) = KeyBytes THEN Read(wire) ELSE Throw

\* The strings a key is sent as: raw, to_hex, base64 with and without its
\* '=', base32z.
Formats(k) == {k, to_hex(k), to_base64(k), Body(to_base64(k)), to_base32z(k)}

Format ==
    /\ at = "object"
    /\ \E text \in Formats(key) \cup {mnode_address(key)} :
          /\ wire' = text
          /\ sent' = IF text \in Formats(key) THEN key ELSE Nil
    /\ at' = "wire"
    /\ UNCHANGED <<key, written>>

Init ==
    /\ at \in {"wire", "object"}
    /\ IF at = "wire" THEN wire \in Inputs /\ key = Nil
                      ELSE wire = <<>> /\ key \in Keys
    /\ written = Nil
    /\ sent = Nil

Next == parse_pubkey \/ load_from_hex \/ load_from_bytes \/ Format

Spec == Init /\ [][Next]_vars

-----------------------------------------------------------------------------
(* Properties                                                              *)

\* The type invariant; a key in hand always has KeyBytes bytes, whatever
\* string it was read from (the loaders throw on any other length, the
\* decoders of parse_pubkey write into a key that is already there).
TypeOK ==
    /\ at \in {"wire", "object", "thrown"}
    /\ wire \in Seq(0..255)
    /\ at = "object" => key \in [1..KeyBytes -> 0..255]
    /\ written \in {Nil} \cup Nat
    /\ sent \in {Nil} \cup [1..KeyBytes -> 0..255]

\* parse(format(k)) = k for raw bytes, hex, base64 with and without
\* padding, and base32z (section 8 of the design document): a key that was
\* formatted and read again, by parse_pubkey or by the loader of that
\* format, is the key that was formatted, never the all-zero key of a
\* string that fits no encoding.  This ties the lengths parse_pubkey
\* compares with (64, 43, 44, 52) to the lengths the encoders produce
\* for 32 bytes.
RoundTrip == at = "object" /\ sent # Nil => key = sent

\* Two '=' at the end: base64 of a key of one byte less.
TwoPads(s) == Pads(s) = 2

\* A string parse_pubkey or a loader takes for a key carries a whole key:
\* the decoder wrote exactly KeyBytes bytes, never more (there is no room
\* in pk) and never fewer (the rest would be the zeros pk started with).
\* The exception is base64 with two '=': it has the length and the last
\* character parse_pubkey asks for, is_base64 accepts it, and it decodes to
\* one byte less.
AcceptedIsWhole ==
    at = "object" /\ written \notin {Nil, 0} => written = KeyBytes \/ TwoPads(wire)

=============================================================================
