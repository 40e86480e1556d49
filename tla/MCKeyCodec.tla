----------------------------- MODULE MCKeyCodec -----------------------------
(***************************************************************************)
(* KeyCodec for TLC: three keys, and as strings from outside every format  *)
(* of every key and of a key of one byte less, each also cut short by a    *)
(* character, longer by one or two characters or by '=', and in upper      *)
(* case.                                                                   *)
(***************************************************************************)
EXTENDS KeyCodec

\* 0123456789abcdef... (the key of the unit tests), all zeros, all ones
Counting == [i \in 1..KeyBytes |-> 16 * ((2 * i - 2) % 16) + ((2 * i - 1) % 16)]
MCKeys   == {Counting, Zero, [i \in 1..KeyBytes |-> 255]}

Upper(s) == [i \in DOMAIN s |-> IF s[i] \in 97..122 THEN s[i] - 32 ELSE s[i]]

Variants(s) == {s, Front(s), s \o <<48>>, s \o <<48, 48>>, s \o <<Pad>>, Upper(s)}

MCInputs ==
    UNION {Variants(s) : s \in UNION {Formats(k) \cup Formats(Front(k)) \cup {mnode_address(k)}
                                         : k \in MCKeys}}

=============================================================================
