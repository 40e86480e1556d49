--------------------------- MODULE MCOnionRequest ---------------------------
(***************************************************************************)
(* OnionRequest for TLC: the controls a user can pass on the command line, *)
(* and two payloads with their lengths.                                    *)
(***************************************************************************)
EXTENDS OnionRequest

CONSTANTS p1, p2

\* A small payload, and one that fits its size field behind one relay and
\* no longer does behind two.
MCPayloads == {p1, p2}
MCPayloadLength == (p1 :> 1) @@ (p2 :> 6)

\* '{"headers":[]}', '{"host": ..., "target": "/beldex/lsrpc"}', a JSON
\* object with none of the keys a relay looks for, one with two of them,
\* and text that is not JSON at all.
TwoShapes == [headers |-> <<>>, host |-> "host", target |-> "/beldex/lsrpc"]
MCControls ==
    {[headers |-> <<>>],
     [host |-> "host", target |-> "/beldex/lsrpc"],
     [other |-> "x"],
     TwoShapes,
     NotJson}

\* Bounds of the model: the large payload is sent over paths of up to two
\* relays, the shortest on which it fits and the shortest on which it no
\* longer does; the control of two shapes, which only the last node reads,
\* over paths of up to two relays as well.
MCInit == Init /\ (payload = p2 \/ control = TwoShapes => Len(keys) <= 2)

MCSpec == MCInit /\ [][Next]_vars /\ WF_vars(ClientStep) /\ WF_vars(RelayStep)

=============================================================================
