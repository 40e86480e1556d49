---------------------------- MODULE OnionService ----------------------------
(***************************************************************************)
(* What an onion request promises the one who sends it, whatever the path  *)
(* in between: the request has one outcome, decided once.  Either the node *)
(* it is meant for is handed the payload and the control, once, or the     *)
(* request is refused and nobody is handed anything; the sender gets its   *)
(* answer only after that, and the answer of the node only when the node   *)
(* was asked.                                                              *)
(***************************************************************************)
CONSTANTS
    Relays, Payloads, Controls,
    Nil

VARIABLES
    request,     \* [dest, payload, control]: who is asked, and what
    outcome,     \* Nil while undecided, then "served" or "refused"
    delivered,   \* what was handed to whom: records [at, payload, control]
    answer       \* Nil while the sender waits, then what it got

serviceVars == <<request, outcome, delivered, answer>>

Requests == [dest : Relays, payload : Payloads, control : Controls]

Init ==
    /\ request \in Requests
    /\ outcome = Nil
    /\ delivered = {}
    /\ answer = Nil

\* The node the request is meant for is handed what the sender gave.
Serve ==
    /\ outcome = Nil
    /\ outcome' = "served"
    /\ delivered' = {[at |-> request.dest, payload |-> request.payload,
                      control |-> request.control]}
    /\ UNCHANGED <<request, answer>>

\* Somebody on the way turns the request down.
Refuse ==
    /\ outcome = Nil
    /\ outcome' = "refused"
    /\ UNCHANGED <<request, delivered, answer>>

\* What the sender can get: the node's answer or the refusal, or bytes it
\* cannot read.
Answers == [served |-> {"answer", "unreadable"}, refused |-> {"refusal", "unreadable"}]

Return ==
    /\ outcome # Nil
    /\ answer = Nil
    /\ answer' \in Answers[outcome]
    /\ UNCHANGED <<request, outcome, delivered>>

\* The sender loses its connection and gets nothing.  It does not learn
\* the outcome, and the outcome may be decided after it gave up.
Lose ==
    /\ answer = Nil
    /\ answer' = "nothing"
    /\ UNCHANGED <<request, outcome, delivered>>

Next == Serve \/ Refuse \/ Return \/ Lose

Spec == Init /\ [][Next]_serviceVars

=============================================================================
