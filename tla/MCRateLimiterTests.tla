------------------------ MODULE MCRateLimiterTests ------------------------
(***************************************************************************)
(* RateLimiterTests for TLC: a burst of four, three tokens a second at     *)
(* four ticks a second (a token's time is no whole number of ticks, as     *)
(* with microseconds and most rates), a table of three clients.  The tests *)
(* need two peers and MAX_CLIENTS + 1 addresses, and at most               *)
(* 10 * BUCKET_SIZE calls.                                                 *)
(***************************************************************************)
EXTENDS RateLimiterTests

CONSTANTS p1, p2, c1, c2, c3, c4

MCPeers   == {p1, p2}
MCClients == {c1, c2, c3, c4}
MCStamps  == {now}

=============================================================================
