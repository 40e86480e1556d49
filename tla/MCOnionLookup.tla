--------------------------- MODULE MCOnionLookup ---------------------------
(***************************************************************************)
(* OnionLookup for TLC: two nodes, and command lines of up to four         *)
(* arguments made of two of the options, the key of either node in either  *)
(* case, a hex word that is no key, and a value given as text, as a file   *)
(* or as a file that is missing.                                           *)
(***************************************************************************)
EXTENDS OnionLookup

CONSTANTS n1, n2

MCNodes == {n1, n2}

MCWords ==
    {w \in Options : w.name \in {"--mainnet", "--random"}}
    \cup {w \in HexWords : w.digits = 64 \/ (w.node = n1 /\ ~w.upper)}
    \cup {w \in Texts : w.is \in {"plain", "@file", "@missing"}}

=============================================================================
