--------------------------- MODULE MCRateLimiter ---------------------------
(***************************************************************************)
(* RateLimiter for TLC: a burst of two, one token every two ticks, a table *)
(* of two clients for three addresses, one peer, and five queries at any   *)
(* of four times, the last of them late enough to fill an empty bucket.    *)
(***************************************************************************)
EXTENDS RateLimiter

CONSTANTS p1, c1, c2, c3

MCPeers   == {p1}
MCClients == {c1, c2, c3}
MCStamps  == {0, 1, 2, 4}

ClientSymmetry == Permutations(MCClients)

=============================================================================
