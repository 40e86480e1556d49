# TLA+ models of the Beldex storage server

This directory holds the TLA+ specifications kept beside the storage server's
code, the TLC configurations that check them, and `PROJECT.json`, which lists
the components, the runs, the source lines every definition stands for, the
findings and the hazards. The design document of the system is `spec.md`; the
models are written from the code under `src/`, and from the design document
only where the code of a part is not in the repository (those definitions are
marked `spec_modelled` in the map).

## 1. The system

The storage server is a node of a network of master nodes. Clients reach a node
over HTTPS, nodes reach each other over a message bus, and a client that wants
to hide what it asks of whom wraps its request in layers of encryption, one per
node of a path it chooses (an onion request). Each node runs next to a
blockchain daemon (`beldexd`) that holds the node's private keys and knows the
set of active nodes.

| Part | Source | State | Operations | Talks to |
|---|---|---|---|---|
| Onion request client | `src/contrib/onion-request.cpp` 209-354 | the onion under construction, the ephemeral key and cipher of the last layer built, the saved key and cipher of the innermost layer | encrypt the innermost layer, wrap one hop, frame and POST, decode the response | entry node over HTTPS (certificate not verified) |
| Client start-up | `src/contrib/onion-request.cpp` 76-187 | argument vectors, a promise, the key table filled by a callback | parse arguments, connect, look the path up, fail or call `onion_request` | daemon's public RPC |
| Onion relay | design document 4.3, comment at `onion-request.cpp` 217-252 | the request in flight, the chain of hops waiting for the reply | decrypt, dispatch on the control object, forward, serve, refuse, pass the reply back | next hop over the bus, request handler |
| Channel encryption | design document 3 and 4.1 | none | encrypt, decrypt (three ciphers) | - |
| Server process (`main`) | `src/unnamed/part_001` 37-240 | the signal flag, `is_mainnet`, the private keys, the five objects of the try block, the TLS files on disk | early exits, key fetch, file generation, construction, `init`, `start`, timers, wait, three shutdown calls, unwinding | daemon, operating system (signals, kills), file system |
| Bus server interface | `src/unnamed/part_001` 241-380 | three raw pointers, the daemon connection | `init`, handlers (declared only) | master node, request handler, rate limiter |
| User public keys | `src/common/src/beldex_common.cpp` | network byte, key bytes; the global `is_mainnet` | `load`, `hex`, `prefixed_hex`, `prefixed_raw` | - |
| Key codec | `src/unnamed/part_000` | none | `load_from_hex`, `load_from_bytes`, `parse_pubkey`, `to_hex`, `mnode_address`, secret to public | bus library (hex, base64, base32z) |
| Rate limiter | `src/unit_test/rate_limiter.cpp` (tests only), design document 4.4 | one token bucket per node key, one per client address | `should_rate_limit`, `should_rate_limit_client` | HTTPS and bus handlers |
| Message store, swarm, peer tests | design document only | - | - | - |

### What is hard about it

* **The onion construction is built backwards.** The loop wraps from the last
  hop to the first, and every layer's routing tail must carry the key and the
  cipher of the layer *inside* it. The variables that hold them are overwritten
  in the same loop turn. The response comes back encrypted once, for the
  innermost layer, long after those variables were reused.
* **Relays fail in the middle.** A hop can meet a damaged blob, a control object
  it does not understand, a destination that has left the network, or the hop
  limit. Each must end in an answer to the client, and none may happen to a
  request that was well-formed and short enough.
* **`main()` has a start-up that a signal, an exception or a kill can cut at any
  statement**, objects that point at each other through raw pointers, and a
  shutdown whose order is written by hand against the order in which C++ would
  destroy the objects.
* **Files outlive the process.** The certificate and its key are two files
  written by one call; the process can die between them.

### What each part must guarantee

* Client and relays: every hop reads exactly the layer made for it; exactly the
  last node of the path serves the request, with the payload and control the
  client gave; a relay refuses only when the reason is really there; the client
  prints the answer the last node gave; the client terminates.
* Onion request as a whole: one outcome per request, decided once; the sender
  hears of it only afterwards.
* The client command: what the user typed is what the node named last is
  handed, and nothing else is handed to any node; the command ends.
* Key codec: a key in hand has 32 bytes; a formatted key reads back as itself;
  a string taken for a key carries a whole key.
* Rate limiter: the table of clients stays within `MAX_CLIENTS`; the allowed
  queries of an identifier stay within burst plus refill; a query that waited
  a token's time is allowed; the unit tests pass.
* Server process: no port is opened without the node's keys; the listener
  serves with a certificate and key that belong together; while the bus runs,
  what it points to is alive; the listener never outlives the bus; a signal
  ends the process.

## 2. Modules

| Module | Models | Instantiated by |
|---|---|---|
| `OnionRequest` | `onion_request()` step by step, the relays along the path, the environment (a node leaving, the POST altered, the POST failing) | `MCOnionRequest` with `OnionRequest.cfg`, `OnionRequestCbc.cfg` |
| `Lifecycle` | `main()` of the server statement by statement, the signal handler, kills and restarts, the daemon | `MCLifecycle` with `Lifecycle.cfg`, `LifecycleUnwind.cfg`, `LifecycleDaemon.cfg` |
| `OnionLookup` | `main()` of the onion request client: the argument loop, the lookup of the path at the daemon with its two callbacks on bus threads, the call of `onion_request()`, the order of destruction at the end | `MCOnionLookup` with `OnionLookup.cfg`, `OnionLookupPromise.cfg` |
| `OnionClient` | the client as one program: `main()` of `OnionLookup` calling `onion_request()` of `OnionRequest` with what it made of the command line and of the daemon's answer, and the nodes that take the request | `MCOnionClient` with `OnionClient.cfg` |
| `UserPubKey` | `user_pubkey_t`: `load()`, `prefixed_hex()`, `prefixed_raw()` over strings of bytes, under both values of `is_mainnet` | `MCUserPubKey` with `UserPubKey.cfg` |
| `OnionService` | what an onion request promises its sender: one outcome, decided once, delivery to the node asked and to no other, an answer only after the outcome, or no answer at all | `OnionRequest`, as `Service == INSTANCE OnionService WITH ...` |
| `KeyCodec` | `parse_pubkey`, `load_from_hex`, `load_from_bytes`, `to_hex`, `mnode_address`, with hex, base64 and base32z modelled by their bits | `MCKeyCodec` with `KeyCodec.cfg` |
| `RateLimiter` | the token buckets and the bounded table of clients of the design document, section 4.4 | `MCRateLimiter` with `RateLimiter.cfg` |
| `RateLimiterTests` | the seven unit tests of `src/unit_test/rate_limiter.cpp`, call by call, run against `RateLimiter` | `MCRateLimiterTests` with `RateLimiterTests.cfg` |

### OnionRequest

*State.* The arguments of `onion_request` (`ip`, as the node the address
belongs to, `keys`, `enc_type`, `payload`, `control`) are chosen in `Init` and
never change; `Init` gives `ip` the address of the first node of the path,
which is what `OnionClient` shows `main()` to pass. The client's locals keep their
names: `blob`, `A` (the current ephemeral public key), `last_etype`,
`final_pubkey`, `final_etype`, and `it`, the index the reverse iterator stands
at. `cpc` is the client's position: `final`, `wrap`, `await`, `done`. The
network is the POST in flight (`httpReq`), the request at a relay (`hop`, the
record `d`/`ek`/`et`/`nh` of `mn.onion_req_v2`), the hops waiting for the reply
(`waiting`), the reply travelling back (`reply`) and the HTTP response
(`httpRes`). `seen`, `faults` and `tampered` are history variables used only by
the properties.

*Data abstraction.* A ciphertext is the record `[et, client, server, intact,
data]`: it opens with `Decrypt` exactly when cipher, ephemeral key and recipient
are the ones it was made with and it was not altered. `Decrypt` returns the
*set* of possible outcomes: the plaintext; `Fail` (the exception); and, for
aes-cbc only, `Garbage`, because without an authentication tag a wrong input
can decrypt to bytes. A frame `[size][blob]{json}` is the record `[size, blob,
tail]`. `Length` gives a payload its `PayloadLength` and a layer the length of
what it wraps plus `LayerOverhead`; `encode_size` writes a length modulo
`SizeLimit` (2^32 in the code), as the narrowing of `size_t` to `uint32_t` in
the call does. The reader cuts a frame by its size field (`Cut`): when the
field is not the length of the blob, what follows the cut is not JSON. A JSON
tail is a record whose `DOMAIN` the relay dispatches on;
`NotJson` stands for a tail that does not parse. `Hex`/`FromHex` wrap and unwrap
a key, so that a key and its hex text are different values.

*Actions.* `ClientEncryptFinal` (source lines 262-279), `ClientWrapHop` (one
turn of the loop, 281-300), `ClientPost` (302-312), `ClientReceive` (314-353,
with `Decoded` for the guess at the encoding). The relay: `EntryReceive`,
`RelayProcess` (decrypt, then `Dispatch` into `Forward`, `Serve` or `Refuse`),
`RelayReturn`, `EntryRespond`. `Dispatch` follows the design document, 4.3.1
and 9: of the keys `destination`, `headers` and `host` (`Shapes`) a control
has exactly one, and a control with none or with several is refused as
`bad_control`. The client appends CONTROL as typed (line 269) and never looks
at it, so a control of two shapes reaches the last node. The environment: `Deregister(r)`, `Tamper`, and
`PostFails`: `cpr::Post()` comes back without a response (lines 310-323) and
the client returns on the empty text. A POST the entry node had not read is
lost; one it had read goes its way, and its answer meets a closed connection.

### Lifecycle

*State.* `pc` is the statement `main()` is at; `signalled`, `is_mainnet` and
`exit_code` are the program's own. `alive` is the sequence of the try block's
objects that exist, in declaration order (`Declared`); leaving the block takes
them from the back (`Destroy`), `bmq_server_ptr.reset()` takes the bus out of
its place (`ResetBus`). `bmqRunning`, `listening`, `timers` and `mnStopped`
say what has been started and stopped. `files` gives, for `cert`, `key` and
`dh`, the number of the generate call that wrote the file, or 0 when it is
absent; `generated` counts the calls, and a call takes its number when it
starts, so that the file a killed call left and the files of the next call
carry different numbers. `beldexd` says whether the daemon accepts
connections, `crashes` counts kills.

*Actions.* One per statement or group of statements that changes the state, in
source order: `Preflight` (lines 42-131, with the early returns as the sequence
`EarlyReturns`; one of its entries is no return but the exception of
`create_directories()`, and from line 83 on (`PastDataDir`) `fs::exists()`,
`init_logging()` and every log call can throw as well: all of them are outside
the try block and end the process with the exit code `Aborted`),
`LoadStatsKeys`, `GetKeys`, `SignalCheck`, `CheckCert`, `WriteCertSecond`,
`CheckDh`, `Construct` (once per declaration), `BusInit` (the bus is started)
and `BusConnect` (`init()` returns when the daemon is connected), `StartHttps`, `InstallTimers`, `AwaitSignal`, `StopMasterNode`, `StopHttps`,
`ResetBus`, `Destroy`, `Return`. `Throw` leaves the try block from any of its
statements; the handlers write to `std::cerr`, not to the log, and return
`EXIT_FAILURE`. `Signal(sig)` is the handler. `Crash`, `Restart`, `DaemonFails` and
`DaemonRecovers` are the environment.

*Assumptions about code that is not in the repository.*

* `get_mn_privkeys()` returns without keys when its callback reports a signal
  (this is why `main()` tests `signalled` right after it).
* `generate_cert()` writes its two files one after the other, in an order that
  does not change between runs; both orders are explored (`writeOrder`). Writing
  one file is one step.
* `bmq_server.init()` starts the bus threads, then blocks until the daemon is
  connected, as the header says of `connect_beldexd`: the bus runs while
  `init()` waits.
* The first start finds an empty data directory, or one that is missing and
  cannot be made (the value `uncreatable` of `options.data_dir`).
* The build is the regular one (`INTEGRATION_TEST` undefined).

### OnionLookup

*State.* The locals of `main()` under their names: `argv`, `i`, `bmq_addr`,
`enc_type`, `payload`, `control`, `pubkeys_hex` (the keys as typed), `pubkeys`
(the keys parsed), `got` (the promise), `aux_keys`, `first_ip`, `chain`. `pc` is
where the main thread is, `ret` what `main()` returns. `conn` and `request` are
the bus's view of the connection asked for and of the request queued on it.
`bmq_alive` says whether the threads of the bus run, `locals_alive` whether the
objects declared after the bus (lines 118-128) still exist. `response` and
`events` are history variables.

*Data abstraction.* An argument is a record of exactly what the loop tests: an
option by name; a hex word with the node it names, the case of its digits and
whether it has 64 of them; or a text that is plain, empty, `@file` or the name
of a file that cannot be opened. Parsing a key (`legacy_pubkey::from_hex`)
keeps the node and drops the case, so `pubkeys` and `pubkeys_hex` differ the
way the parsed key and the typed text do. The daemon's answer is a record:
success, a vector of parts that is empty or not, status 200 or not, JSON that
parses or not, the nodes listed (those asked for that are active) and the ones
listed without ed25519/x25519 keys.
The daemon spells keys in lower case. The keys and the address of a node are
the node.

*Actions.* `ParseArg` is one turn of the loop (lines 82-113) with its three
exits (`Usage`, abort on an unreadable `@file`, next argument). `Start` is lines
114-163: no key is a usage error, else the bus starts with the connection and
the request pending. On the bus threads: `Connected`, `ConnectFails` (line
122-125) and `Reply(r)` (the callback of lines 129-152, whole: the checks, the
entries recorded up to the first one without keys, and the completion of the
promise; for a vector with no parts `ReadOfNoPart`, the undefined read of
`data[0]`, is a choice between an exception like any other and the end of the
process). `Complete` is `set_value` or `set_exception`: on a promise that has
a result already, or that `main()` has destroyed, the call made in the catch
handler throws out of the callback (`Escapes`), and the bus thread swallows
the exception or the process ends. On the main thread again: `Wait` (`got_fut.get()`), `BuildChain`
(167-178), `OnionRequest` (the call returns or throws), `Leave` (the locals
are destroyed) and `StopBus` (the bus, declared first, is destroyed last).

*Assumptions about the bus library.* A request whose connection failed, or that
got no answer, is reported to its callback with `success` false; callbacks run
on threads of the bus, which stop when the bus object is destroyed. Whether the
bus ever hands over a vector with no parts is not known from the sources; the
model lets it.

### OnionClient

The module extends `OnionRequest` and instantiates `OnionLookup` as `L`, with
the nodes of the one as the relays of the other. Three locals of `main()` have
the names of the parameters they are passed as (`enc_type`, `payload`,
`control`); they are `arg_enc_type`, `arg_payload` and `arg_control` here.

*State.* The variables of both modules. Until the call the parameters of
`onion_request()` are `Nil`, `cpc` is `Nil` and the network is idle
(`Untouched`).

*Data abstraction.* `main()` holds PAYLOAD and CONTROL as text;
`onion_request()` appends the one as bytes and the other as what the relay
will parse. `Body` makes the request body of a text and `ControlOf` is the
parse of a text, so neither is passed as it is. The cipher is an `EncryptType`
in `main()` and is written by `to_string()` into the routing tails.

*Actions.* `Call` is the call of lines 180-181: it is enabled where `main()`
stands before the call, and sets the parameters from the locals. `Callee` and
`Relaying` are the steps of `OnionRequest` while `main()` waits inside the
call. `Return` is the step `OnionRequest` of `OnionLookup`, enabled once
`onion_request()` is done. `MainStep` and `BusStep` are the steps of
`OnionLookup` outside the call. `Network` is the environment of
`OnionRequest`, from the call on.

### UserPubKey

*State.* `is_mainnet`; `key`, the object (`network_`, `pubkey_`); `wire`, the
key as a string on its way to a `load()`; `at`, where the key is now; `origin`,
what the first `load()` made of the input (history).

*Data abstraction.* A string is a sequence of bytes 0..255, a hex digit is the
byte of its character. `IsHex`, `FromHex` and `ToHex` do what `bmq::is_hex`,
`from_hex` and `to_hex` do: both cases are read, lower case is written. The
key material has `KeyBytes` bytes (32 in the code, 2 in the runs), so that
`USER_PUBKEY_SIZE_BYTES` and `USER_PUBKEY_SIZE_HEX` follow as in the code and
the four lengths `load()` distinguishes stay different.

*Actions.* `Load` (`load()`, lines 6-26, through the operator `Loaded`),
`WriteHex` (`prefixed_hex()`, 32-42), `WriteRaw` (`prefixed_raw()`, 44-52).
The first input is any string over `InputChars` up to the longest accepted
length; after that the key only meets what the code itself wrote.

### OnionService and the refinement

`OnionService` is the abstract specification: a `request` (destination,
payload, control), its `outcome` (`Nil`, then `served` or `refused`), what was
`delivered` to whom, and the `answer` the sender got. `Serve` and `Refuse`
decide the outcome once; `Return` gives the sender an answer that fits the
outcome, or bytes it cannot read; `Lose` gives it nothing, at any time, and
leaves the outcome to be decided without it. It has no fairness: it is a safety
specification.

`OnionRequest` maps its state onto it: the request is `Last(keys)`, `payload`
and `control`; `delivered` is `Handed`, what the nodes that served were handed
according to the history `seen`; `outcome` is read from `Handed` and `faults`,
and is the value `"both"`, which the abstract specification never takes, should
a request ever be served and refused; `answer` is `Printed`, what the client
wrote, once it is done. `ImplementsService == Service!Spec` is checked as a
property of the run `onion`.

### KeyCodec

*State.* `at` (`wire`: a string to read; `object`: a key in hand; `thrown`),
`wire`, `key`, and two history variables: `written`, the number of bytes the
decoder wrote, and `sent`, the key the string was formatted from.

*Data.* A string is a sequence of character codes, a key a sequence of 32
bytes. The three text encodings are one codec, `Regrouped`, over alphabets of
16, 64 and 32 characters standing for 4, 6 and 5 bits; `Text` and `Bytes`
encode and decode with it. Keys keep their 32 bytes because the lengths the
code compares with (64, 43, 44, 52) are literals in the source: the model has
them as literals too and the properties check them against what the encoders
produce. A decoder writes at `pk.begin()` into a zeroed key (`Into(Zero, _)`).
The library (`bmq/hex.h`, `base64.h`, `base32z.h`) is not in the repository:
`is_base64` is taken to accept one or two `=` that complete a group of four,
and hex and base32z are read in either case.

*Actions.* `parse_pubkey` (lines 63-81, with `Payload` for the chain of tests),
`load_from_hex` (17-25), `load_from_bytes` (27-33), which throw where the code
throws, and `Format`, which writes a key in hand as raw bytes, `to_hex`,
base64 with or without padding, base32z, or as `mnode_address`.

### RateLimiter and RateLimiterTests

*State.* `peer_buckets` and `client_buckets`, functions from the identifiers
seen to buckets `[tokens, last]`; `log`, the history of queries and answers.

*Data.* Time is counted in ticks and tokens in units of `1/TicksPerSecond` of a
token, so that a refill of any number of ticks is exact. The time of a query is
an argument, as in the interface the tests call: queries reach a bucket in any
order of their times, which is what two handler threads that read the clock
before taking the mutex produce.

*Actions.* `should_rate_limit(id, now)` and `should_rate_limit_client(ip,
now)`; each table has its own mutex, so a query is one step. A query is the
four steps of section 4.4 (`Fresh`, `Refilled`, `Allows`, `Spent`); a query for
an unknown address at a full table first evicts one of the buckets whose `last`
is oldest (`Victims`).

`RateLimiterTests` extends the limiter with the test cases as sequences of
calls (`EmptyBucket`, `SteadyFillup`, `MultipleIdentifiers`, each for peers and
for clients, and `MaxClientLimit`). A call carries its identifier, its time,
what the test expects and the line of the expectation; `Step` makes the next
call of the chosen test and records the line in `failed` when the expectation
does not hold. Delays are computed as the tests compute them, by integer
division by `TOKEN_RATE`, which drops what is left of a tick.

## 3. Runs

| Run | Module, configuration | Expect | Result |
|---|---|---|---|
| `onion` | `MCOnionRequest`, `OnionRequest.cfg` | pass | 1 273 408 distinct states, depth 16 |
| `onion_cbc` | `MCOnionRequest`, `OnionRequestCbc.cfg` | violation | `ResponseAlwaysRecovered` violated |
| `lifecycle` | `MCLifecycle`, `Lifecycle.cfg` | pass | 60 976 distinct states, depth 42 |
| `lifecycle_unwind` | `MCLifecycle`, `LifecycleUnwind.cfg` | violation | `BusTargetsAlive` violated |
| `lifecycle_daemon` | `MCLifecycle`, `LifecycleDaemon.cfg` | violation | `SignalAlwaysStops` violated |
| `lookup` | `MCOnionLookup`, `OnionLookup.cfg` | pass | 316 178 distinct states, depth 13 |
| `lookup_promise` | `MCOnionLookup`, `OnionLookupPromise.cfg` | violation | `PromiseCompletedOnceAndAlive` violated |
| `client` | `MCOnionClient`, `OnionClient.cfg` | pass | 145 916 distinct states, depth 25 |
| `userpubkey` | `MCUserPubKey`, `UserPubKey.cfg` | pass | 28 386 distinct states, depth 6 |
| `keycodec` | `MCKeyCodec`, `KeyCodec.cfg` | pass | 945 distinct states |
| `ratelimiter` | `MCRateLimiter`, `RateLimiter.cfg` | pass | 227 529 distinct states |
| `ratelimiter_tests` | `MCRateLimiterTests`, `RateLimiterTests.cfg` | pass | 120 distinct states, depth 41 |

Run one with `tlc -workers 2 -config OnionRequest.cfg MCOnionRequest`.

### onion

Properties:

* `TypeOK`: the shape of every variable, including that the onion the client
  holds has exactly as many layers as hops wrapped so far (`IsLayer`).
* `RefusalsAreJustified`: a relay answers "decrypt" only if the POST was
  altered, "malformed" only if it was altered, the client's control is not
  JSON or the onion is `Oversized`, "hop_limit" only if the path is longer than the limit, "unknown_peer"
  only if a node of the path left, "bad_control" only if the client's control
  was not of exactly one of the three kinds. An onion built with the wrong key or cipher for
  some layer breaks it. `Oversized` is a finding: the client posts an onion
  whose length no longer fits the size field, and the entry node answers 400.
* `PathFollowed`: the n-th node to read a layer is the n-th node of the path,
  it reads it at hop number n, and only the last one reads the payload and the
  control.
* `ResponseRecovered`: when the request was served, and the final cipher is
  authenticated or the answer came as bytes, the client prints the answer the
  last node gave to the payload it sent.
* `RequestCompletes`: the client reaches its end, whatever the relays met.
* `ImplementsService`: every behaviour is a behaviour of `OnionService` under
  the mapping of section 2. A request that is throttled and handled all the
  same, one served by two nodes or by a node other than the last, and a client
  that returns with an answer before the outcome is decided all break it. A
  client whose POST failed has no answer, and the request may be served
  after it gave up: the service allows that and nothing else.

Bounds: two relays (so a path can revisit a node and can name the wrong one),
paths of 1 to `MaxPath = 4` hops against `HOP_LIMIT = 3` (the limit is 15 in
the code; 3 keeps every path length on both sides of it within reach), and
five controls: the two a node serves, one with none of the three keys, one
with two of them (`TwoShapes`) and one that is not JSON.
The POST is altered at most once, fails at any moment or not at all, and any
subset of relays leaves.

Sizes: `SizeLimit = 8` stands for 2^32 and `LayerOverhead = 1` for what a layer
adds. The payload `p1` has length 1 and fits on every path. `p2` has length 6:
behind one relay the outermost blob has length 7 and its size field is right;
behind two it has length 8 and the field reads 0. `MCSpec` sends `p2` over
paths of one and two relays only (`MCInit`); on longer paths it
meets the same refusal at the same node. The control of two shapes goes over
paths of one and two relays as well: only the last node reads it, and what
the nodes before it do does not depend on it.

### onion_cbc

`ResponseAlwaysRecovered` is `ResponseRecovered` without the restriction on
cipher and encoding. TLC finds the trace: the final layer uses aes-cbc, the
last node answers in base64, the client's first `decrypt` is given the base64
text and returns garbage instead of throwing, and the garbage is printed.

### lifecycle

Properties:

* `TypeOK`: the shape of every variable; also that `alive` is a prefix of the
  declarations (less the bus after its reset) and that `main()` has a return
  value exactly when it has returned.
* `KeysBeforePorts`: neither the bus nor the listener runs without valid keys.
* `CertKeyPaired`: the listener serves with a certificate and a key written by
  the same `generate_cert()` call, and with DH parameters, after any number of
  kills during generation. A call that was killed after its first file and the
  call that repairs the pair have different numbers.
* `BusTargetsAliveInOrder`: while the bus runs, the master node, the request
  handler and the rate limiter exist, on start-up and on the orderly shutdown.
* `ListenerWithinBus`: the HTTPS listener is open only while the bus runs,
  and once the master node has been told to stop the listener is open only
  until the next statement closes it or the block is left. The design
  document has the listener closed first; `main()` closes it second (lines
  225-227), which is recorded as a finding.
* `SignalStops`: once a signal has arrived, the process ends.

That the process can end by `terminate()` before the try block is a finding;
no property is stated about it, since which failures return is read off
`Return`.

Bounds: every value of the options record, both signals, exceptions at every
statement from line 83 to the end of the try block, `MaxCrashes = 2` (one kill between the two
files of a pair and one more during the repair), both write orders.

Deadlock checking is on: the only states without a successor are those where
the process has exited and cannot be killed any more, and there the daemon can
still change, so no state is stuck.

### lifecycle_unwind, lifecycle_daemon

Each checks one statement about the program that the code does not meet; see
the findings in `PROJECT.json`. `BusTargetsAlive` is `BusTargetsAliveInOrder`
without the exemption for unwinding. `SignalAlwaysStops` is `SignalStops` under `SpecAnyDaemon`,
the specification without the assumption that the daemon comes back: the
trace ends with `main()` inside `init()`, the bus started and the daemon gone.

### lookup

Properties:

* `TypeOK`: the shape of every variable; the two vectors of keys have the same
  length; `main()` has a return value from the moment it leaves.
* `ChainMatchesPath`: when `onion_request()` is called, the chain is the path
  the user typed, key for key and in order, the address is that of its first
  node, and every node of it was listed with keys.
* `ErrorsAreJustified`: `main()` returns 2 only if the connection failed, the
  answer was unusable, a node of the path was not listed, `onion_request()`
  threw, or the first key was typed in upper case.
* `ArgumentsArePassed`: when `onion_request()` is called, the arguments that
  are no options are the keys of the path, then the payload, then the control.
  The exception `OptionAmongLastTwo` is a finding: the loop finds the two
  values by their index in `argv`, options counted, so `KEY PAYLOAD --random`
  sends PAYLOAD with an empty control.
* `LookupEnds`: `main()` ends, whatever the bus reports and in whatever order.
  An end is a return or the death of the process, which has three causes: an
  `@file` that cannot be opened (the exception leaves the argument loop,
  outside the try block), the read of `data[0]` of a vector with no parts,
  and an exception that leaves a callback. The first two are findings, the
  third is part of the finding of `lookup_promise`.

The clause for upper case in `ErrorsAreJustified` is a finding: one key in
upper case, payload, control; the daemon lists the node with its keys; the
chain is complete, `first_ip` is empty, `main()` returns 2. Without the clause
TLC finds this trace.

Bounds: two nodes; command lines of up to `MaxArgs = 4` arguments (a path of
two keys with both values, or one key with an option) over the 10 arguments of
`MCWords`: two of the six options (one that sets the address, one that sets the
cipher), the key of either node in either case, a short hex word, a plain
text, a file that can be read and one that cannot (text and file give payload
and control different values, so that the two cannot be swapped unseen). Every answer in `Responses` is tried.

Deadlock checking is off: the program ends.

### lookup_promise

`PromiseCompletedOnceAndAlive` says that every completion of the promise is
the first and finds the promise in existence. The trace: the connection fails
and its callback sets the exception; the callback of the request follows with
`success` false and sets it again. Run further, the same callback comes after
`Leave`, when `got` is gone and the bus still runs.

### client

The two halves of the client are checked apart in `lookup` and `onion`, each
against what it assumes of the other: in `lookup` the call is one step that
returns or throws, and `onion` starts from any path and any arguments. This run checks them together.

Properties:

* `ProgramTypeOK`: the type invariant of `main()`, and from the call on that
  of `onion_request()`. The cipher is an enumerator in `main()` and a name in
  the routing tails; a call that passed it unconverted breaks the invariant.
* `CalledAsAssumed` (an action property): the step that makes the call leaves
  `onion_request()` in a state `Init` of `OnionRequest` describes. What the
  run `onion` shows therefore holds of every call `main()` makes: the path is
  not empty, the address is that of the first node of the chain, the cipher
  is one of the three.
* `ServedAsTyped`: no node is ever handed anything but the payload and the
  control the user typed, at the node of the last key typed; and when
  `onion_request()` has returned, the control is one a node serves, the onion
  fits its size fields and nothing was in the way (`Undisturbed`), that node
  did get them. Command lines with an option among their last two arguments
  are excepted, as in `ArgumentsArePassed`.
* `CommandEnds`: the command comes to an end, whatever the daemon and the
  nodes answer.

Bounds: two nodes; command lines of up to `MaxArgs = 4` arguments over the six
words of `MCWords` (the option `--aes-gcm`, the key of either node in lower
case and of the second in upper case, a text and an `@file`), so paths of one
and two nodes (`MaxPath = 2`), with and without an option. `ControlOf` is what
a JSON parser makes of the three texts a value can have: nothing typed is no
JSON, the text is a `headers` control and the file a `host` control; as a
payload the file has length 6 and no longer fits behind two nodes. Every answer
of the daemon is tried. Nodes leave, the POST is altered and the POST fails
only from the call on: a node that left earlier is one the daemon does not
list, which `Responses` covers. Deadlock checking is off: the program ends.

### userpubkey

Properties:

* `TypeOK`: the shape of every variable, and that what was written has one of
  the lengths of a whole key or is empty, in hex unless it is the raw form.
* `KeyIsWhole`: `pubkey_` is empty exactly when `network_` is -1, and has
  `KeyBytes` bytes otherwise, whichever branch of `load()` produced it.
* `OnlyTestnetZeroChanges` (an action property): a later `load()` changes the
  key only on testnet, only from network 0 to network 5, and never the key
  material.

Bounds: `KeyBytes = 2`; inputs of up to 6 bytes over `{0, '0', '5', 'A'}`:
a byte that is no digit, two digits that make the network bytes 00, 05, 50, ...
and a letter whose case `to_hex` changes. Deadlock checking is on; a key can
always be written or read again.

The exception `OnlyTestnetZeroChanges` allows is a finding against the design
document's `parse(format(k)) == k`: on testnet the three bytes `00 00 00` load
as network 0; `prefixed_hex()` writes `0000`; `load()` reads four hex digits
as a bare key and gives it network 5.

### keycodec

Properties:

* `TypeOK`: the shape of every variable; a key in hand has exactly 32 bytes
  whatever string it was read from.
* `RoundTrip`: a key that was formatted (raw, hex, base64 with and without
  padding, base32z) and read again, by `parse_pubkey` or by the loader of that
  format, is the key that was formatted, never the zero key of a string that
  fits no encoding. This checks the literals 64, 43, 44 and 52 against the
  encoders.
* `AcceptedIsWhole`: whenever a decoder wrote anything, it wrote 32 bytes. The
  exception, `TwoPads`, is a finding: 42 base64 digits and `==` have the length
  and the last character `parse_pubkey` asks for and decode to 31 bytes, which
  come back as a key with a zero byte at the end.

Bounds: three keys (bytes counting through every hex digit, all zero, all
255), so that every character of the three alphabets and both extremes occur;
as inputs, every format of these keys and of the same keys one byte short, and
the `mnode_address`, each as it is, without its last character, with `0`, `00`
or `=` added, and in upper case. That gives strings of every length next to
the accepted ones, hex of 62 and 66 digits, and padded base64 of both kinds.
Deadlock checking is off: a loader that threw is an end.

### ratelimiter

Properties:

* `TypeOK`: the shape of the tables; the table of clients never has more than
  `MAX_CLIENTS` buckets.
* `RateBounded`: of the queries for one identifier that carry non-decreasing
  times, those in a window `W` are allowed at most `BUCKET_SIZE + ceil(W *
  TOKEN_RATE)` times (design document, section 8), from whatever state earlier
  queries, late ones included, left the bucket in. For a client it is claimed
  while its bucket stays in the table; an evicted address comes back to a full
  bucket, which is a gap of the design recorded as a finding.
* `QuietThenAllowed`: a query that comes a token's time or more after the
  query before it for the same identifier is allowed, whatever times the
  earlier queries carried: a time before the bucket's `last` counts as no time
  passed, never as negative time.

That a new address is admitted at a full table, and that the bucket evicted
for it is the oldest, is how the design document is modelled (`Fresh`,
`Victims`) and not a property: the unit test at line 120 expects the
opposite, see `ratelimiter_tests`.

Bounds: `BUCKET_SIZE = 2`, one token every two ticks, `MAX_CLIENTS = 2` with
three addresses (one more than the table holds), one peer, `MaxCalls = 5`
queries (a burst, a refusal, a refill and an eviction fit) at the times 0, 1,
2 and 4 in any order: half a token, one token and a full bucket later. The
addresses are symmetric. Deadlock checking is off: the run ends with the
`MaxCalls`-th query.

### ratelimiter_tests

`ChecksHold`: every `CHECK` and `CHECK_FALSE` of the seven tests holds at the
call it is made for, with two exceptions, both findings.

* `FullTableChecks`: line 120 expects a new address at a full table to be
  throttled, and the limiter of section 4.4 admits it (the test and the
  design document disagree).
* `WaitsCutShort`: lines 27 and 76 expect a token after a wait of
  1 000 000 / `TOKEN_RATE` microseconds. The division drops the remainder, so
  unless `TOKEN_RATE` divides the second the wait is shorter than a token's
  time and the refill of section 4.4 has less than one token. The tests hold
  for a rate that divides the second, or for a limiter that rounds up; the
  design document does not say which.

Bounds: `BUCKET_SIZE = 4`, `TOKEN_RATE = 3` at `TicksPerSecond = 4` (a token's
time is no whole number of ticks, as with microseconds and most rates; at
`TOKEN_RATE = 2` the set `WaitsCutShort` is empty and the run passes as
well), `MAX_CLIENTS = 3` with four addresses. Each test is a behaviour of its
own, up to 40 calls long. Deadlock checking is off: a test ends.


## 4. Fairness

* `OnionRequest`: `WF(ClientStep)` and `WF(RelayStep)`. The client is a
  sequential program with no blocking call but the POST; a relay answers every
  request it accepted. No fairness on `Deregister`, `Tamper` or `PostFails`:
  nothing obliges a node to leave, an attacker to act or a connection to
  break.
* `Lifecycle`: `WF(Main)`: the main thread is scheduled. `SpecAnyDaemon` stops
  there. `Spec` adds `WF(DaemonRecovers)` and `SF(BusConnect)`: a daemon that is
  down comes back, and a connection attempt that is possible again and again
  succeeds. These two are assumptions about the daemon, not about the code, and
  `lifecycle_daemon` shows what happens without them. No fairness on `Signal`,
  `Throw`, `Crash` or `Restart`.
* `OnionLookup`: `WF(Main)` and `WF(Bus)`: the main thread is scheduled, and
  the bus reports what became of a connection and of a request, by an answer or
  by its timeout. Which report comes, and when, is not constrained.
* `OnionClient`: `WF(Thread)`, `WF(BusStep)` and `WF(Relaying)`: one thread
  runs `main()` and `onion_request()`, and the bus and the relays are as in
  the two modules it is made of.
* `UserPubKey`, `KeyCodec`, `RateLimiter`, `RateLimiterTests`: none; they have
  no liveness property.
* `OnionService`: none. The abstract specification is the safety part of the
  promise; that the request completes is `RequestCompletes`, checked of
  `OnionRequest` under its own fairness.

## 5. Mutants

Every property of a passing run is paired in `PROJECT.json` with a mutant: an
operator defined just before the definition it replaces, changing it the way a
slip in the code would (the routing tail naming the hop itself, the response
opened with the last keypair instead of the saved one, the test of `signalled`
dropped, `||` turned into `&&` in the test for missing files, the reset of the
bus dropped, the first hop looked for under the last key, a callback that
fails without completing the promise, the network byte left in the raw key
material, the prefix left out for every testnet key, a POST that was not answered taken
for an empty body, the length of hex text not compared with the key's, base64
decoded with its padding, 51 for 52, a bucket inserted empty, the refill
without its cap, the elapsed time not saturated, no eviction at a full table,
the payload taken from the last argument, the cipher passed as the enumerator it is in `main()`, a refusal that is never
sent back, ...). With the mutant in place TLC finds the property violated.

## 6. Not modelled

* Bytes, except in `UserPubKey` and `KeyCodec`: nonces, ciphertext, JSON text.
  They are outside what the properties tell apart. Of the 4-byte size prefix
  the value is modelled, with its width; its byte order is not.
* The three `pubkey()` derivations of `src/unnamed/part_000` (lines 47-61):
  curve arithmetic in libsodium, out of reach of a model checker.
* The rate limiter's own code, which is not in the repository: `RateLimiter`
  is the algorithm of the design document.
* In `OnionLookup`: an entry with port 0 or an empty address, entries for nodes
  that were not asked for, the order of the entries in an answer.
* `user_pubkey_t::hex()`, which nothing reads back.
* The relay, the rate limiter and the channel encryption beyond the behaviour
  listed in section 2; their code is not in the repository.
* The message store, swarm membership and peer testing.
* Logging, apart from the fact that a log call may throw.
* A truncated file left by a kill in the middle of a write: `exists()` would
  be true for it and no later start would repair it, but the writers
  (`generate_cert`, `generate_dh_pem`) are not in the sources, and whether they
  write in place or rename a finished file decides the question. Writing one
  file is one step of `Lifecycle`.
* A time limit of `cpr::Post()`: the call is made without one.
* The grace period of a node that shuts down (design document, 5 and 7): an
  onion request in flight at a node that stops is answered 503 after a bounded
  wait. The relay's code is not in the repository and the document gives it one
  sentence; what it would take to model (which of two answers, the late one
  from the next hop or the 503, reaches the hop before) is not written there.
  On the server's side `Lifecycle` has the order of the three shutdown calls.
* What a node does with a `host` control beyond serving it: the rule for the
  `target` of a proxied request.
* A supervisor that starts the server again after it returned with a failure.
  `Lifecycle` restarts after a kill; which failures of the start repeat on
  every start depends on the supervisor's configuration, which is not part of
  the repository.

## 7. Plan

Done: `OnionRequest` with the width of its size fields, a POST that fails and
the exact dispatch on the control; `Lifecycle` with the exceptions outside its
try block; `OnionLookup` with the positional arguments and the answer without
parts; `OnionClient`, the two composed; `UserPubKey`; `KeyCodec`;
`RateLimiter` with its unit tests; and `OnionService` with the refinement.

Left: what section 6 lists as waiting for code that is not in the repository.
When the relay's sources are added, `EntryReceive`, `RelayProcess`,
`RelayReturn` and `EntryRespond` are to be checked against them line by line,
and the shutdown of a node with requests in flight is the first thing to add.
