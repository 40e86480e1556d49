---------------------------- MODULE OnionClient ----------------------------
(***************************************************************************)
(* The onion request client as the one program it is: main() of            *)
(* contrib/onion-request.cpp (module OnionLookup) calls onion_request()    *)
(* (module OnionRequest) with what it made of the command line and of the  *)
(* daemon's answer, and returns when onion_request() does.                 *)
(*                                                                         *)
(* The module extends OnionRequest, whose variables are the parameters     *)
(* and locals of onion_request() and the network, and instantiates         *)
(* OnionLookup for main().  Three locals of main() have the names of the   *)
(* parameters they are passed as: they are arg_enc_type, arg_payload and   *)
(* arg_control here.  Until the call the parameters are unset and the      *)
(* network is idle.                                                        *)
(***************************************************************************)
EXTENDS OnionRequest

CONSTANTS
    Words, MaxArgs,     \* as in OnionLookup
    ControlOf           \* what a JSON parser makes of each CONTROL

VARIABLES
    argv, i, bmq_addr, arg_enc_type, arg_payload, arg_control, pubkeys_hex, pubkeys,
    pc, ret, bmq_alive, locals_alive, conn, request, got,
    aux_keys, first_ip, chain, response, events

L == INSTANCE OnionLookup WITH
        Nodes <- Relays,
        enc_type <- arg_enc_type, payload <- arg_payload, control <- arg_control

\* The text main() read from an argument or a file, as a request body.
Body(text) == [body |-> text]

main    == <<argv, i, bmq_addr, arg_enc_type, arg_payload, arg_control, pubkeys_hex,
             pubkeys, pc, ret, bmq_alive, locals_alive, conn, request, got,
             aux_keys, first_ip, chain, response, events>>
started == <<blob, A, last_etype, final_pubkey, final_etype, keypairs, output,
             network, active, history>>
program == <<main, vars>>

-----------------------------------------------------------------------------

\* to_string(EncryptType): the names of the ciphers on the wire.
to_string == [xchacha20 |-> "xchacha20", aes_gcm |-> "aes-gcm", aes_cbc |-> "aes-cbc"]

CallWith(etype) ==
    /\ pc = "request" /\ cpc = Nil
    /\ ip' = first_ip
    /\ keys' = chain
    /\ enc_type' = etype
    /\ payload' = Body(arg_payload)
    /\ control' = ControlOf[arg_control]
    /\ cpc' = "final"
    /\ it' = Len(chain)
    /\ UNCHANGED <<main, started>>

CallUnconverted == CallWith(arg_enc_type)

\* onion_request(first_ip, first_port, std::move(chain), ..., enc_type,
\* payload, control): main() has the cipher as an enumerator, and
\* onion_request() writes it by its name.
Call == CallWith(IF arg_enc_type = Nil THEN Nil ELSE to_string[arg_enc_type])

\* onion_request() has run to its end: main() goes on behind the call, or
\* in its catch block.
Return ==
    /\ cpc = "done"
    /\ L!OnionRequest
    /\ UNCHANGED vars

\* main() outside the call, and the callbacks of its bus.
MainStep ==
    /\ L!ParseArg \/ L!Start \/ L!Wait \/ L!BuildChain \/ L!Leave \/ L!StopBus
    /\ UNCHANGED vars

BusStep == L!Bus /\ UNCHANGED vars

\* onion_request() and the nodes.
Callee == ClientStep /\ UNCHANGED main
Relaying == RelayStep /\ UNCHANGED main

\* Bound of the model: nodes leave from the call on; a node that left
\* before is one the daemon does not list.
Network ==
    /\ cpc # Nil
    /\ (\E r \in Relays : Deregister(r)) \/ Tamper \/ PostFails
    /\ UNCHANGED main

ProgramInit ==
    /\ L!Init
    /\ ip = Nil /\ keys = Nil
    /\ enc_type = Nil /\ payload = Nil /\ control = Nil
    /\ cpc = Nil /\ it = 0
    /\ active = Relays
    /\ Untouched

Thread == MainStep \/ Call \/ Callee \/ Return

ProgramNext == Thread \/ BusStep \/ Relaying \/ Network

\* One thread runs main() and onion_request(); the bus reports what became
\* of connection and request; a relay answers what it took.  Nothing
\* obliges a node to leave, an attacker to act or a connection to break.
ProgramSpec ==
    /\ ProgramInit /\ [][ProgramNext]_program
    /\ WF_program(Thread) /\ WF_program(BusStep) /\ WF_program(Relaying)

-----------------------------------------------------------------------------
(* Properties                                                              *)

\* The type invariant: that of main(), and from the call on that of
\* onion_request().
ProgramTypeOK == L!TypeOK /\ (cpc # Nil => TypeOK)

\* The call puts onion_request() in a state module OnionRequest starts
\* from, so that what is shown there holds of what main() calls: the path
\* is not empty and not longer than the command line allows, the address
\* is that of the node whose keys are first in the chain (the callback of
\* the lookup found it by comparing key text, apart from the table the
\* chain is built from), and the cipher is one the relays know by name.
CalledAsAssumed == [][cpc = Nil /\ cpc' # Nil => Init']_program

\* What the command line asks for: the node of the last key, the PAYLOAD
\* and the CONTROL.
Typed ==
    LET words == L!Positional
        n     == Len(words)
    IN  [at      |-> words[n - 2].node,
         payload |-> Body(L!Content[words[n - 1].is]),
         control |-> ControlOf[L!Content[words[n].is]]]

\* Nothing between the call and the last node is in the way: the POST
\* arrives as sent and is not throttled, the answer comes back, and the
\* nodes of the path are still there.
Undisturbed ==
    /\ ~tampered /\ "throttled" \notin faults
    /\ httpRes # NoResponse
    /\ Range(keys) \subseteq active

\* From the command line to the last node: no node is ever handed anything
\* but what the user typed, and when onion_request() has returned, the
\* control is one a node serves, the onion fits and nothing was in the
\* way, the node the user named was handed it.  Between the two lie the
\* argument loop of main(), the table and the address the callback keeps,
\* the chain built from them, the layers of onion_request() and one
\* unwrap at each node.  Command lines with an option among their last
\* two arguments are the exception (see ArgumentsArePassed of OnionLookup).
ServedAsTyped ==
    ~L!OptionAmongLastTwo =>
        /\ \A h \in Handed : h = Typed
        /\ (/\ cpc = "done" /\ Undisturbed
            /\ Serveable(control) /\ ~Oversized /\ Len(keys) <= HOP_LIMIT)
           => Handed # {}

\* The command comes to an end, whatever the daemon and the nodes answer:
\* main() waits on a future and onion_request() on a POST, both without a
\* time limit.
CommandEnds == <>(pc \in {"exited", "aborted"})

=============================================================================
