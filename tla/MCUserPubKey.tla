---------------------------- MODULE MCUserPubKey ----------------------------
(***************************************************************************)
(* UserPubKey for TLC: keys of two bytes, and first inputs made of a byte  *)
(* that is no hex digit (0) and the digits '0', '5' and 'A'.               *)
(***************************************************************************)
EXTENDS UserPubKey

MCInputChars == {0, 48, 53, 65}

=============================================================================
