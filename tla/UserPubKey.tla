----------------------------- MODULE UserPubKey -----------------------------
(***************************************************************************)
(* user_pubkey_t: the public key of a user, with the byte that names its   *)
(* network.                                                                *)
(*                                                                         *)
(* A key reaches a node as text or as bytes, is read by load(), and is     *)
(* written again by prefixed_hex() or prefixed_raw() for the database, for *)
(* a log line, or for the next node; that node reads it with load() again. *)
(* What load() accepts and what prefixed_hex() writes both depend on the   *)
(* global is_mainnet.  The module follows one key through any number of    *)
(* such readings and writings.                                             *)
(*                                                                         *)
(* A string is a sequence of bytes, a byte a number in 0..255; a hex digit *)
(* is the byte of its character.                                           *)
(***************************************************************************)
EXTENDS Integers, Sequences, SequencesExt

CONSTANTS
    KeyBytes,      \* bytes of key material: 32 in the code
    InputChars,    \* bound of the model: the bytes the first input is made of
    Nil

USER_PUBKEY_SIZE_BYTES == KeyBytes + 1
USER_PUBKEY_SIZE_HEX   == 2 * USER_PUBKEY_SIZE_BYTES

\* As in the code, the four lengths load() tells apart are all different.
ASSUME /\ KeyBytes \in Nat /\ KeyBytes >= 2
       /\ InputChars \subseteq 0..255

VARIABLES
    is_mainnet,   \* beldex::is_mainnet
    key,          \* the user_pubkey_t: network_ and pubkey_
    wire,         \* the key as a string, on its way to a load()
    at,           \* where the key is now: "wire" or "object"
    origin        \* history: what the first load() made of the input

vars == <<is_mainnet, key, wire, at, origin>>

-----------------------------------------------------------------------------
(* Hexadecimal text                                                        *)

HexValue ==
    [c \in 48..57 |-> c - 48] @@ [c \in 97..102 |-> c - 87] @@ [c \in 65..70 |-> c - 55]

\* bmq::is_hex
IsHex(s) == \A i \in DOMAIN s : s[i] \in DOMAIN HexValue

\* bmq::from_hex: two digits, upper or lower case, to a byte.
FromHex(s) ==
    [i \in 1..(Len(s) \div 2) |-> 16 * HexValue[s[2 * i - 1]] + HexValue[s[2 * i]]]

HexDigit(n) == IF n < 10 THEN 48 + n ELSE 87 + n

\* bmq::to_hex: a byte to two lower-case digits.
ToHex(b) == FlattenSeq([i \in DOMAIN b |-> <<HexDigit(b[i] \div 16), HexDigit(b[i] % 16)>>])

-----------------------------------------------------------------------------
(* user_pubkey_t                                                           *)

Invalid == [network_ |-> -1, pubkey_ |-> <<>>]

RawBodyWithNetid(pk) == pk

\* pk.substr(1): the bytes after the network byte.
RawBody(pk) == Tail(pk)

\* load(): prefixed hex, prefixed bytes, and on testnet the two forms
\* without the prefix, which get network 5; anything else is invalid.
Loaded(pk) ==
    IF Len(pk) = USER_PUBKEY_SIZE_HEX /\ IsHex(pk)
    THEN [network_ |-> FromHex(SubSeq(pk, 1, 2))[1],
          pubkey_  |-> FromHex(SubSeq(pk, 3, Len(pk)))]
    ELSE IF Len(pk) = USER_PUBKEY_SIZE_BYTES
    THEN [network_ |-> Head(pk), pubkey_ |-> RawBody(pk)]
    ELSE IF ~is_mainnet /\ Len(pk) = USER_PUBKEY_SIZE_HEX - 2 /\ IsHex(pk)
    THEN [network_ |-> 5, pubkey_ |-> FromHex(pk)]
    ELSE IF ~is_mainnet /\ Len(pk) = USER_PUBKEY_SIZE_BYTES - 1
    THEN [network_ |-> 5, pubkey_ |-> pk]
    ELSE Invalid

\* uint8_t netid = type()
Netid(k) == k.network_ % 256

BareOnTestnet(k) == ~is_mainnet

\* netid == 0 && !is_mainnet: the key is written without its network byte.
Bare(k) == Netid(k) = 0 /\ ~is_mainnet

\* prefixed_hex(): the network byte, unless the key is bare, and the key,
\* in hex; nothing for an empty key.
PrefixedHex(k) ==
    IF k.pubkey_ = <<>> THEN <<>>
    ELSE (IF Bare(k) THEN <<>> ELSE ToHex(<<Netid(k)>>)) \o ToHex(k.pubkey_)

PrefixedRawOfAnything(k) == <<Netid(k)>> \o k.pubkey_

\* prefixed_raw(): the network byte and the key; nothing for an empty key.
PrefixedRaw(k) ==
    IF k.pubkey_ = <<>> THEN <<>> ELSE <<Netid(k)>> \o k.pubkey_

-----------------------------------------------------------------------------
(* One key, read and written again and again                               *)

Load ==
    /\ at = "wire"
    /\ key' = Loaded(wire)
    /\ origin' = IF origin = Nil THEN key' ELSE origin
    /\ at' = "object"
    /\ UNCHANGED <<is_mainnet, wire>>

WriteHex ==
    /\ at = "object"
    /\ wire' = PrefixedHex(key)
    /\ at' = "wire"
    /\ UNCHANGED <<is_mainnet, key, origin>>

WriteRaw ==
    /\ at = "object"
    /\ wire' = PrefixedRaw(key)
    /\ at' = "wire"
    /\ UNCHANGED <<is_mainnet, key, origin>>

Inputs == BoundedSeq(InputChars, USER_PUBKEY_SIZE_HEX)

Init ==
    /\ is_mainnet \in BOOLEAN
    /\ wire \in Inputs
    /\ key = Invalid
    /\ at = "wire"
    /\ origin = Nil

Next == Load \/ WriteHex \/ WriteRaw

Spec == Init /\ [][Next]_vars

-----------------------------------------------------------------------------
(* Properties                                                              *)

Bytes == 0..255

WrittenLengths ==
    {0, USER_PUBKEY_SIZE_BYTES, USER_PUBKEY_SIZE_HEX, USER_PUBKEY_SIZE_HEX - 2}

\* The type invariant; what prefixed_hex() and prefixed_raw() write has
\* one of the lengths of a whole key, or is empty (both look at
\* pubkey_.empty() before they write the network byte).
TypeOK ==
    /\ is_mainnet \in BOOLEAN
    /\ at \in {"wire", "object"}
    /\ key.network_ \in Bytes \cup {-1}
    /\ key.pubkey_ \in Seq(Bytes) /\ Len(key.pubkey_) <= USER_PUBKEY_SIZE_BYTES
    /\ wire \in Seq(Bytes) /\ Len(wire) <= USER_PUBKEY_SIZE_HEX
    /\ origin # Nil /\ at = "wire" =>
          /\ Len(wire) \in WrittenLengths
          /\ IsHex(wire) \/ Len(wire) = USER_PUBKEY_SIZE_BYTES

\* A key is whole or it is nothing: whichever of its four branches load()
\* took, pubkey_ has exactly the bytes of the key material without the
\* network byte, and it is empty exactly when network_ is -1.  This is
\* what lets prefixed_hex() and prefixed_raw() test pubkey_.empty() alone.
KeyIsWhole ==
    /\ (key.network_ = -1) = (key.pubkey_ = <<>>)
    /\ key.pubkey_ # <<>> => Len(key.pubkey_) = KeyBytes

\* Reading back what was written changes nothing but the network byte of
\* a network-0 key on testnet, which becomes 5: prefixed_hex() leaves the
\* prefix out for it and load() gives every key without a prefix network
\* 5.  The key material is never altered, in either form and in either
\* case of the hex digits, a valid key never becomes invalid, and after
\* the one change the key is stable.
OnlyTestnetZeroChanges ==
    [][origin # Nil /\ key' # key =>
          /\ ~is_mainnet
          /\ key.network_ = 0 /\ key'.network_ = 5
          /\ key'.pubkey_ = key.pubkey_]_vars

=============================================================================
