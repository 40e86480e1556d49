---------------------------- MODULE OnionRequest ----------------------------
(***************************************************************************)
(* One onion request, from the client that builds it to the master nodes   *)
(* that peel it and back.                                                  *)
(*                                                                         *)
(* The client half is contrib/onion-request.cpp, onion_request(): it wraps *)
(* the payload for the last node of the path, then wraps once more for     *)
(* every earlier node while walking the path backwards, posts the result   *)
(* to the first node and decodes whatever comes back.  Its local variables *)
(* keep their names: keys, enc_type, payload, control, blob, A,            *)
(* last_etype, final_pubkey, final_etype and the reverse iterator it.      *)
(*                                                                         *)
(* The relay half is not part of the sources at hand.  It follows the      *)
(* wire description of the design document and of the comment block at     *)
(* the top of onion_request(): one unwrap per hop, a hop counter, three    *)
(* control shapes, the reply encrypted once and passed back verbatim.      *)
(*                                                                         *)
(* Data is abstract.  A ciphertext is a record that remembers how it was   *)
(* made; it opens only with the same cipher and the same pair of keys.  A  *)
(* frame [size][blob]{json} is the record of its size field, its blob and  *)
(* its json tail; lengths are small numbers and the size field has a width.*)
(***************************************************************************)
EXTENDS Naturals, Sequences, FiniteSets, SequencesExt

CONSTANTS
    Relays,     \* the master nodes a path can name
    Payloads,   \* request bodies (PAYLOAD on the command line)
    Controls,   \* control tails (CONTROL on the command line)
    HOP_LIMIT,  \* the largest hop number a relay still serves: 15
    MaxPath,    \* bound of the model: the longest path tried
    PayloadLength,  \* payload.size() of each payload, in units of the model
    LayerOverhead,  \* what one layer adds to the size of what it wraps
    SizeLimit,      \* what no uint32_t reaches: 2^32 in the code
    Nil,        \* no value: an unset optional, an empty slot
    NotJson,    \* a control that does not parse as JSON
    Fail,       \* decrypt() threw
    Garbage     \* aes-cbc "opened" with the wrong key or data

ASSUME /\ HOP_LIMIT \in Nat \ {0}
       /\ MaxPath \in Nat \ {0}
       /\ Relays # {} /\ Payloads # {}
       /\ PayloadLength \in [Payloads -> Nat]
       /\ LayerOverhead \in Nat \ {0}
       /\ SizeLimit \in Nat \ {0}

VARIABLES
    ip,             \* the address the POST goes to, as the node that has it
    keys, enc_type, payload, control,   \* the other arguments of onion_request()
    cpc,            \* where the client is in onion_request()
    it,             \* the reverse iterator, as an index into keys (0 = rend)
    blob,           \* the onion built so far
    A,              \* the current ephemeral public key (a is its secret half)
    last_etype,     \* the cipher of the layer built last
    final_pubkey,   \* the ephemeral key of the innermost layer, saved
    final_etype,    \* the cipher of the innermost layer, saved
    keypairs,       \* number of crypto_box_keypair() calls so far
    output,         \* what the client writes to stdout
    httpReq,        \* the POST to /onion_req/v2 in transit
    httpRes,        \* the HTTPS response, once it arrived
    hop,            \* the onion request a relay is about to process
    waiting,        \* the relays that forwarded and await the reply
    reply,          \* the reply on its way back
    active,         \* the nodes the swarm directory knows
    seen,           \* history: what each hop read in the clear
    faults,         \* history: the refusals relays answered with
    tampered        \* history: the request was altered in transit

args    == <<ip, keys, enc_type, payload, control>>
client  == <<cpc, it, blob, A, last_etype, final_pubkey, final_etype, keypairs, output>>
network == <<httpReq, httpRes, hop, waiting, reply>>
history == <<seen, faults, tampered>>
vars    == <<args, client, network, active, history>>

-----------------------------------------------------------------------------
(* Keys, ciphers and frames                                                *)

EncTypes      == {"xchacha20", "aes-gcm", "aes-cbc"}
Authenticated == {"xchacha20", "aes-gcm"}

\* The two long-term public keys of a node, and the n-th ephemeral key.
\* They are different types: none is ever equal to another.
XKey(r)  == [type |-> "x25519", of |-> r]
EdKey(r) == [type |-> "ed25519", of |-> r]
Eph(n)   == [type |-> "x25519", of |-> n]

\* key.hex() as it is written into a JSON tail, and its reading.
Hex(k)     == [hex |-> k]
FromHex(h) == h.hex

\* payload.size() and blob.size(): a layer is longer than what it wraps.
RECURSIVE Length(_)
Length(b) ==
    IF b \in Payloads THEN PayloadLength[b]
                      ELSE LayerOverhead + Length(b.data.blob)

\* encode_size(uint32_t s): the four bytes of s; the call narrows a
\* size_t to 32 bits without a check.
encode_size(s) == s % SizeLimit

\* encode_size(blob.size()) + blob + tail
Framed(b, tail) == [size |-> encode_size(Length(b)), blob |-> b, tail |-> tail]

\* The frame as its reader cuts it: size bytes are the blob, the rest is
\* the tail.  With a size that is not the blob's, the cut falls inside the
\* ciphertext and what follows it is not JSON.
Cut(frame) ==
    IF frame.size = Length(frame.blob)
    THEN frame
    ELSE [size |-> frame.size, blob |-> Garbage, tail |-> NotJson]

\* ChannelEncryption{a, A, false}.encrypt(et, data, peer): the client side
\* of the X25519 exchange.
Encrypt(et, eph, peer, data) ==
    [et |-> et, client |-> eph, server |-> peer, intact |-> TRUE, data |-> data]

IsCipher(c) == "et" \in DOMAIN c

\* The results decrypt() can have.  The authenticated ciphers open with
\* the right cipher and keys or throw; aes-cbc has no tag, and what is not
\* its ciphertext may still come out as bytes when the padding fits.
Decrypt(et, eph, peer, c) ==
    IF IsCipher(c) /\ c.intact /\ c.et = et /\ c.client = eph /\ c.server = peer
    THEN {c.data}
    ELSE IF et = "aes-cbc" THEN {Fail, Garbage} ELSE {Fail}

\* decrypt() given the base64 text itself instead of the bytes it encodes.
DecryptText(et) == IF et = "aes-cbc" THEN {Fail, Garbage} ELSE {Fail}

-----------------------------------------------------------------------------
(* The client: onion_request()                                             *)

Paths == BoundedSeq(Relays, MaxPath) \ {<<>>}

EtypeChoicesUnset == {enc_type}

\* enc_type.value_or(random_etype()): the cipher given on the command
\* line, or any of the three under --random.
EtypeChoices == IF enc_type = Nil THEN EncTypes ELSE {enc_type}

\* crypto_box_keypair(A, a)
FreshKey == Eph(keypairs + 1)

RoutingToSelf ==
    [destination   |-> Hex(EdKey(keys[it])),
     ephemeral_key |-> Hex(A),
     enc_type      |-> last_etype]

RoutingOwnKey ==
    [destination   |-> Hex(EdKey(keys[it + 1])),
     ephemeral_key |-> Hex(FreshKey),
     enc_type      |-> last_etype]

\* The routing tail of the layer for keys[it]: where to forward, and the
\* ephemeral key and cipher of the layer inside, which is the one built in
\* the step before.
Routing ==
    [destination   |-> Hex(EdKey(keys[it + 1])),
     ephemeral_key |-> Hex(A),
     enc_type      |-> last_etype]

\* The innermost layer: payload and control for the last node of the path.
ClientEncryptFinal ==
    /\ cpc = "final"
    /\ \E et \in EtypeChoices :
        /\ last_etype' = et
        /\ final_etype' = et
        /\ blob' = Encrypt(et, FreshKey, XKey(Last(keys)), Framed(payload, control))
    /\ A' = FreshKey
    /\ final_pubkey' = FreshKey
    /\ keypairs' = keypairs + 1
    /\ it' = Len(keys) - 1
    /\ cpc' = "wrap"
    /\ UNCHANGED <<args, output, network, active, history>>

\* One turn of the loop: the layer for keys[it] around the onion so far.
ClientWrapHop ==
    /\ cpc = "wrap"
    /\ it >= 1
    /\ \E et \in EtypeChoices :
        /\ last_etype' = et
        /\ blob' = Encrypt(et, FreshKey, XKey(keys[it]), Framed(blob, Routing))
    /\ A' = FreshKey
    /\ keypairs' = keypairs + 1
    /\ it' = it - 1
    /\ UNCHANGED <<args, cpc, final_pubkey, final_etype, output, network, active, history>>

\* After the loop: the entry tail, and the POST to the first node.
ClientPost ==
    /\ cpc = "wrap"
    /\ it = 0
    /\ httpReq' = [to   |-> ip,
                   body |-> Framed(blob, [ephemeral_key |-> Hex(A),
                                          enc_type      |-> last_etype])]
    /\ cpc' = "await"
    /\ UNCHANGED <<args, it, blob, A, last_etype, final_pubkey, final_etype,
                   keypairs, output, httpRes, hop, waiting, reply, active, history>>

\* What cpr::Post() returns when the connection could not be made or
\* broke: no status and an empty text.
NoResponse == [code |-> 0, text |-> [b64 |-> FALSE, data |-> <<>>]]

\* cpr::Post() gives up and onion_request() returns on the empty text:
\* the POST is lost if the first node had not read it, and goes its way
\* without the client if it had.
PostFails ==
    /\ cpc = "await"
    /\ httpRes = Nil
    /\ httpRes' = NoResponse
    /\ httpReq' = Nil
    /\ cpc' = "done"
    /\ UNCHANGED <<args, it, blob, A, last_etype, final_pubkey, final_etype,
                   keypairs, output, hop, waiting, reply, active, history>>

OpenResponseLastPair(data) == Decrypt(last_etype, A, XKey(Last(keys)), data)

\* d.decrypt(final_etype, body, keys.back().second) with the saved pair.
OpenResponse(data) == Decrypt(final_etype, final_pubkey, XKey(Last(keys)), data)

OrElse(tries, fallback) ==
    (tries \ {Fail}) \cup (IF Fail \in tries THEN fallback ELSE {})

\* The guess at the response's encoding: decrypt the body as it is; if
\* that throws and the body is base64, decode and decrypt again; if that
\* throws too, or the body is not base64, print what there is.
Decoded(text) ==
    IF text.b64
    THEN OrElse(DecryptText(final_etype), OrElse(OpenResponse(text.data), {text.data}))
    ELSE OrElse(OpenResponse(text.data), {text.data})

\* Mutant: a POST that has not been answered is taken for an empty body.
ClientReceiveUnanswered ==
    /\ cpc = "await"
    /\ cpc' = "done"
    /\ UNCHANGED <<args, it, blob, A, last_etype, final_pubkey, final_etype,
                   keypairs, output, network, active, history>>

ClientReceive ==
    /\ cpc = "await"
    /\ httpRes # Nil
    /\ \/ /\ httpRes.text.data = <<>>
          /\ UNCHANGED output
       \/ /\ httpRes.text.data # <<>>
          /\ output' \in Decoded(httpRes.text)
    /\ cpc' = "done"
    /\ UNCHANGED <<args, it, blob, A, last_etype, final_pubkey, final_etype,
                   keypairs, network, active, history>>

-----------------------------------------------------------------------------
(* The relays                                                              *)

ErrorReply(code, why) ==
    [code |-> code, text |-> [b64 |-> FALSE, data |-> [error |-> why]]]

Throttled == [code |-> 429, text |-> [b64 |-> FALSE, data |-> <<>>]]

\* What the request handler or the proxied host answers to a request.
Answer(tail, body) ==
    [to |-> body, via |-> IF "headers" \in DOMAIN tail THEN "handler" ELSE "proxy"]

RefuseSilently(code, why) ==
    /\ faults' = faults \cup {why}
    /\ hop' = Nil
    /\ UNCHANGED <<reply, waiting, seen>>

\* Every refusal is answered: [code, reason] goes back up the path.
Refuse(code, why) ==
    /\ reply' = ErrorReply(code, why)
    /\ faults' = faults \cup {why}
    /\ hop' = Nil
    /\ UNCHANGED <<waiting, seen>>

\* The onion request the first node makes of the POST.
Posted ==
    [at |-> httpReq.to,
     d  |-> httpReq.body.blob,
     ek |-> FromHex(httpReq.body.tail.ephemeral_key),
     et |-> httpReq.body.tail.enc_type,
     nh |-> 1]

\* The first node takes the POST; the rate limiter may turn it away, and
\* a body that does not cut into blob and JSON is answered 400.
EntryReceive ==
    /\ httpReq # Nil
    /\ httpReq' = Nil
    /\ \/ /\ Cut(httpReq.body).tail # NotJson
          /\ hop' = Posted
          /\ UNCHANGED <<reply, faults>>
       \/ /\ Cut(httpReq.body).tail = NotJson
          /\ Refuse(400, "malformed")
       \/ /\ reply' = Throttled
          /\ faults' = faults \cup {"throttled"}
          /\ UNCHANGED hop
    /\ UNCHANGED <<args, client, httpRes, waiting, active, seen, tampered>>

Note(plain) ==
    seen' = seen \cup {[relay |-> hop.at, nh |-> hop.nh,
                        blob |-> plain.blob, tail |-> plain.tail]}

MayForward == hop.nh + 1 <= HOP_LIMIT

\* mn.onion_req_v2 {d, ek, et, nh} to the node named by destination.
Forward(plain) ==
    /\ MayForward
    /\ FromHex(plain.tail.destination).of \in active
    /\ hop' = [at |-> FromHex(plain.tail.destination).of,
               d  |-> plain.blob,
               ek |-> FromHex(plain.tail.ephemeral_key),
               et |-> plain.tail.enc_type,
               nh |-> hop.nh + 1]
    /\ waiting' = Append(waiting, hop.at)
    /\ Note(plain)
    /\ UNCHANGED <<reply, faults>>

\* The last hop: the answer is encrypted once, to the ephemeral key this
\* hop was given and with its cipher, as base64 text or as bytes.
Serve(plain) ==
    /\ \E b64 \in BOOLEAN :
        reply' = [code |-> 200,
                  text |-> [b64  |-> b64,
                            data |-> Encrypt(hop.et, hop.ek, XKey(hop.at),
                                             Answer(plain.tail, plain.blob))]]
    /\ hop' = Nil
    /\ Note(plain)
    /\ UNCHANGED <<waiting, faults>>

\* The keys of a control that select what a relay does with the blob:
\* destination forwards it, headers hands it to the request handler, host
\* posts it to another server.
Shapes(tail) == DOMAIN tail \cap {"destination", "headers", "host"}

\* Exactly one of the three shapes: a control with none of the keys, or
\* with more than one, is refused.
Dispatch(plain) ==
    \/ /\ plain.tail = NotJson
       /\ Refuse(400, "malformed")
    \/ /\ plain.tail # NotJson
       /\ Shapes(plain.tail) = {"destination"}
       /\ \/ Forward(plain)
          \/ ~MayForward /\ Refuse(400, "hop_limit")
          \/ /\ MayForward
             /\ FromHex(plain.tail.destination).of \notin active
             /\ Refuse(502, "unknown_peer")
    \/ /\ plain.tail # NotJson
       /\ Shapes(plain.tail) \in {{"headers"}, {"host"}}
       /\ Serve(plain)
    \/ /\ plain.tail # NotJson
       /\ Cardinality(Shapes(plain.tail)) # 1
       /\ Refuse(400, "bad_control")

\* One unwrap: decrypt d with this node's key against ek, then dispatch.
RelayProcess ==
    /\ hop # Nil
    /\ \E plain \in Decrypt(hop.et, hop.ek, XKey(hop.at), hop.d) :
        \/ plain = Fail /\ Refuse(400, "decrypt")
        \/ plain = Garbage /\ Refuse(400, "malformed")
        \/ plain \notin {Fail, Garbage} /\ Dispatch(Cut(plain))
    /\ UNCHANGED <<args, client, httpReq, httpRes, active, tampered>>

\* The reply goes back one hop, unchanged.
RelayReturn ==
    /\ reply # Nil
    /\ waiting # <<>>
    /\ waiting' = Front(waiting)
    /\ UNCHANGED <<args, client, httpReq, httpRes, hop, reply, active, history>>

\* The first node answers the POST, if the connection is still there.
EntryRespond ==
    /\ reply # Nil
    /\ waiting = <<>>
    /\ httpRes' = IF httpRes = Nil THEN reply ELSE httpRes
    /\ reply' = Nil
    /\ UNCHANGED <<args, client, httpReq, hop, waiting, active, history>>

-----------------------------------------------------------------------------
(* The environment                                                         *)

\* A node leaves the network after the client looked the path up.
Deregister(r) ==
    /\ r \in active
    /\ active' = active \ {r}
    /\ UNCHANGED <<args, client, network, history>>

\* The POST is altered on the way: the client does not verify the
\* certificate of the node it posts to.
Tamper ==
    /\ httpReq # Nil
    /\ ~tampered
    /\ httpReq' = [httpReq EXCEPT !.body.blob.intact = FALSE]
    /\ tampered' = TRUE
    /\ UNCHANGED <<args, client, httpRes, hop, waiting, reply, active, seen, faults>>

-----------------------------------------------------------------------------
(* Specification                                                           *)

\* The locals of onion_request() before its first statement, and a
\* network that has not seen the request.
Untouched ==
    /\ blob = Nil /\ A = Nil /\ last_etype = Nil
    /\ final_pubkey = Nil /\ final_etype = Nil
    /\ keypairs = 0
    /\ output = Nil
    /\ httpReq = Nil /\ httpRes = Nil /\ hop = Nil /\ reply = Nil
    /\ waiting = <<>>
    /\ seen = {} /\ faults = {} /\ tampered = FALSE

\* main() calls onion_request() with the address of the node whose keys
\* come first in the chain.
Init ==
    /\ keys \in Paths
    /\ ip = keys[1]
    /\ enc_type \in EncTypes \cup {Nil}
    /\ payload \in Payloads
    /\ control \in Controls
    /\ cpc = "final"
    /\ it = Len(keys)
    /\ active = Relays
    /\ Untouched

ClientStep == ClientEncryptFinal \/ ClientWrapHop \/ ClientPost \/ ClientReceive
RelayStep  == EntryReceive \/ RelayProcess \/ RelayReturn \/ EntryRespond

Next ==
    \/ ClientStep
    \/ RelayStep
    \/ \E r \in Relays : Deregister(r)
    \/ Tamper
    \/ PostFails

\* The client is a sequential program that runs to its end, and a relay
\* answers every request it took, with a body or with an error.  Nothing
\* obliges a node to leave or an attacker to act.
Spec == Init /\ [][Next]_vars /\ WF_vars(ClientStep) /\ WF_vars(RelayStep)

-----------------------------------------------------------------------------
(* Properties                                                              *)

RECURSIVE IsLayer(_, _)
IsLayer(c, depth) ==
    /\ depth > 0
    /\ DOMAIN c = {"et", "client", "server", "intact", "data"}
    /\ c.et \in EncTypes /\ c.intact \in BOOLEAN
    /\ c.client \in {Eph(n) : n \in 1..MaxPath}
    /\ c.server \in {XKey(r) : r \in Relays}
    /\ \/ c.data.blob \in Payloads /\ c.data.tail \in Controls
       \/ c.data.blob \notin Payloads /\ IsLayer(c.data.blob, depth - 1)

\* The type invariant.  The ciphers are unset only before the first layer
\* is built (value_or() always yields one of the three), the iterator
\* stays inside the path, and the onion has at most one layer per node.
TypeOK ==
    /\ keys \in Paths /\ payload \in Payloads /\ control \in Controls
    /\ ip \in Relays
    /\ enc_type \in EncTypes \cup {Nil}
    /\ cpc \in {"final", "wrap", "await", "done"}
    /\ it \in 0..Len(keys)
    /\ keypairs \in 0..Len(keys)
    /\ cpc = "final" => blob = Nil /\ A = Nil /\ last_etype = Nil
    /\ cpc # "final" =>
        /\ IsLayer(blob, Len(keys) - it)
        /\ A = Eph(keypairs)
        /\ {last_etype, final_etype} \subseteq EncTypes
        /\ final_pubkey = Eph(1)
    /\ httpReq # Nil => httpReq.to \in Relays /\ IsLayer(httpReq.body.blob, MaxPath)
    /\ hop # Nil => hop.at \in Relays /\ hop.nh \in 1..HOP_LIMIT /\ IsLayer(hop.d, MaxPath)
    /\ httpRes # Nil => httpRes.code \in {0, 200, 400, 429, 502}
    /\ reply # Nil => reply.code \in {200, 400, 429, 502}
    /\ waiting \in BoundedSeq(Relays, MaxPath)
    /\ active \subseteq Relays
    /\ tampered \in BOOLEAN
    /\ faults \subseteq {"throttled", "decrypt", "malformed", "hop_limit",
                         "unknown_peer", "bad_control"}

\* A control the last node acts on: it parses, and it has the key of one
\* shape, which is not the one that forwards.
Serveable(tail) ==
    /\ tail # NotJson
    /\ "destination" \notin DOMAIN tail
    /\ Cardinality(DOMAIN tail \cap {"headers", "host"}) = 1

\* The onion no longer fits its size fields: the outermost blob, the
\* payload under one layer for each key, is SizeLimit bytes or more.
Oversized == PayloadLength[payload] + Len(keys) * LayerOverhead >= SizeLimit

\* A relay refuses a request the client built only for a cause outside
\* the onion.  No hop fails to decrypt or to parse its layer unless the
\* request was altered in transit: every layer is encrypted to the node
\* the layer outside routes it to, and that layer's tail carries the
\* ephemeral key and the cipher of the layer inside (the loop of
\* onion_request() writes the tail before it replaces A and last_etype).
\* The hop limit stops only paths longer than HOP_LIMIT, an unknown peer
\* is a node that left, a bad control is one the user passed.  The one
\* refusal the client brings on itself is that of an oversized onion:
\* encode_size() writes its length modulo SizeLimit, onion_request() posts
\* it all the same, and the first node cannot cut the body.
RefusalsAreJustified ==
    /\ "decrypt" \in faults => tampered
    /\ "malformed" \in faults => tampered \/ control = NotJson \/ Oversized
    /\ "hop_limit" \in faults => Len(keys) > HOP_LIMIT
    /\ "unknown_peer" \in faults => \E i \in 2..Len(keys) : keys[i] \notin active
    /\ "bad_control" \in faults => ~Serveable(control)

\* The request walks the path the client chose and each node learns only
\* its own step.  The hop numbered n is keys[n]; before the end of the
\* path it reads a routing tail naming keys[n+1] and holds a blob only
\* keys[n+1] can open; the payload and the control are read at the last
\* node and nowhere else (the reverse walk of onion_request() pairs
\* std::prev(it)->first with it->second).
PathFollowed ==
    \A s \in seen :
        /\ s.nh <= Len(keys) /\ s.nh <= HOP_LIMIT
        /\ s.relay = keys[s.nh]
        /\ s.nh < Len(keys) =>
            /\ s.blob \notin Payloads
            /\ s.blob.server = XKey(keys[s.nh + 1])
            /\ FromHex(s.tail.destination) = EdKey(keys[s.nh + 1])
        /\ s.nh = Len(keys) => s.blob = payload /\ s.tail = control

\* The client prints the answer to its own payload whenever the last node
\* served the request and the response is either authenticated or sent
\* as bytes: the response is opened with final_pubkey and final_etype,
\* saved before the loop of onion_request() overwrote A and last_etype.
ResponseRecovered ==
    /\ cpc = "done"
    /\ httpRes.code = 200
    /\ final_etype \in Authenticated \/ ~httpRes.text.b64
    => output = Answer(control, payload)

\* What the design document's 3-hop scenario says of every cipher: the
\* originator decrypts the response to the downstream body.  The guess at
\* the encoding in onion_request() does not keep it for aes-cbc.
ResponseAlwaysRecovered ==
    cpc = "done" /\ httpRes.code = 200 => output = Answer(control, payload)

\* Every request comes to an end: cpr::Post() has no timeout, so the
\* client returns only if every outcome at every hop (served, refused,
\* throttled, undecryptable) produces a reply that travels back.
RequestCompletes == <>(cpc = "done")

-----------------------------------------------------------------------------
(* The service the path implements                                         *)

\* What the nodes that served the request were handed.
Handed ==
    {[at |-> s.relay, payload |-> s.blob, control |-> s.tail] :
        s \in {t \in seen : Serveable(t.tail)}}

Outcomes == {"served" : s \in Handed} \cup {"refused" : f \in faults}

\* What the client printed, as the sender sees it.
Printed ==
    IF httpRes = NoResponse THEN "nothing"
    ELSE IF Serveable(control) /\ output = Answer(control, payload) THEN "answer"
    ELSE IF output \in {Nil} \cup {ErrorReply(400, f).text.data : f \in faults}
    THEN "refusal"
    ELSE "unreadable"

Service ==
    INSTANCE OnionService WITH
        request   <- [dest |-> Last(keys), payload |-> payload, control |-> control],
        outcome   <- IF Outcomes = {} THEN Nil
                     ELSE IF Cardinality(Outcomes) = 1 THEN CHOOSE o \in Outcomes : TRUE
                     ELSE "both",
        delivered <- Handed,
        answer    <- IF cpc = "done" THEN Printed ELSE Nil

\* Client, relays and network together implement the service an onion
\* request is: whatever the path, the ciphers, a node that leaves, a
\* throttled or an altered POST, the request has exactly one outcome.  It
\* is handed to the last node of the path and to no other, with the
\* payload and the control of the client, and at most once; a request
\* that was refused anywhere is never served later and one that was served
\* is never refused; the client returns only when the outcome is decided,
\* and prints the node's answer only if the node was asked.
ImplementsService == Service!Spec

=============================================================================
