----------------------------- MODULE OnionLookup -----------------------------
(***************************************************************************)
(* main() of the onion request client: the argument loop, the lookup of    *)
(* the path's nodes at the daemon, and the call of onion_request().        *)
(*                                                                         *)
(* The main thread parses the arguments, starts the bus, asks for the      *)
(* connection and queues the request, and then waits on the future of the  *)
(* promise `got`.  Two callbacks, both run by threads of the bus, complete  *)
(* the promise: the one for a failed connection and the one for the answer *)
(* to the request.  Both capture main()'s locals by reference.  The bus is *)
(* declared before those locals, so main() destroys them first and stops   *)
(* the threads of the bus last.                                            *)
(*                                                                         *)
(* An argument is a record of what the loop looks at: whether it is one of *)
(* the options, whether it is hex, its length, and for a key which node it *)
(* names and in which case of the digits it was typed.                     *)
(***************************************************************************)
EXTENDS Naturals, Sequences, FiniteSets, SequencesExt

CONSTANTS
    Nodes,      \* the master nodes the daemon knows
    Words,      \* bound of the model: the arguments a command line is made of
    MaxArgs,    \* bound of the model: the longest command line
    Nil

VARIABLES
    argv,          \* argv[1..argc-1]
    i,             \* the loop variable
    bmq_addr, enc_type, payload, control, pubkeys_hex, pubkeys,
    pc,            \* where the main thread is
    ret,           \* what main() returns
    bmq_alive,     \* the threads of the bus run
    locals_alive,  \* got, got_fut, first_ip, first_port and aux_keys exist
    conn,          \* the connection asked for: "pending", "up", "failed"
    request,       \* the request queued on it: "pending", "done"
    got,           \* the promise: "unset", "value", "exception"
    aux_keys, first_ip, chain,
    response,      \* history: what the request's callback was given
    events         \* history: what went wrong beside the return value

parsed == <<i, bmq_addr, enc_type, payload, control, pubkeys_hex, pubkeys>>
bus    == <<bmq_alive, conn, request>>
lookup == <<got, aux_keys, first_ip, response>>
vars   == <<argv, parsed, pc, ret, bus, locals_alive, lookup, chain, events>>

-----------------------------------------------------------------------------
(* Arguments                                                               *)

AddrOf  == [o \in {"--mainnet", "--testnet"} |-> IF o = "--mainnet" THEN "MAINNET_BMQ"
                                                                     ELSE "TESTNET_BMQ"]
EtypeOf == "--xchacha20" :> "xchacha20" @@ "--aes-gcm" :> "aes_gcm" @@
           "--aes-cbc" :> "aes_cbc" @@ "--random" :> Nil

Options  == [kind : {"option"}, name : DOMAIN AddrOf \cup DOMAIN EtypeOf]
HexWords == [kind : {"hex"}, node : Nodes, upper : BOOLEAN, digits : {4, 64}]
Texts    == [kind : {"text"}, is : {"plain", "empty", "@file", "@missing"}]

\* bool hex = arg.size() > 0 && bmq::is_hex(arg)
IsHexArg(arg) == arg.kind = "hex"

IsPubkeyArg(arg) == IsHexArg(arg) /\ arg.digits = 64

\* What ends up in payload or control: the argument, or the file it names.
Content == [t \in {"plain", "empty", "@file"} |->
               IF t = "empty" THEN "" ELSE IF t = "plain" THEN "text" ELSE "file"]

UsageWithoutReturn ==
    /\ pc' = "exited"
    /\ UNCHANGED ret

\* return usage(...)
Usage ==
    /\ pc' = "exited"
    /\ ret' = 1

ForPayloadAtTheEnd == i = Len(argv)

\* auto& var = (i == argc - 2 ? payload : control)
ForPayload == i = Len(argv) - 1

\* One turn of the loop over the arguments.
ParseArg ==
    /\ pc = "args"
    /\ i <= Len(argv)
    /\ LET arg == argv[i]  IN
       \/ /\ arg.kind = "option"
          /\ bmq_addr' = IF arg.name \in DOMAIN AddrOf THEN AddrOf[arg.name] ELSE bmq_addr
          /\ enc_type' = IF arg.name \in DOMAIN EtypeOf THEN EtypeOf[arg.name] ELSE enc_type
          /\ i' = i + 1
          /\ UNCHANGED <<payload, control, pubkeys_hex, pubkeys, pc, ret>>
       \/ /\ arg.kind # "option" /\ i >= Len(argv) - 1
          /\ \/ /\ IsHexArg(arg)
                /\ Usage
                /\ UNCHANGED parsed
             \/ /\ ~IsHexArg(arg) /\ arg.is = "@missing"       \* f.open() throws
                /\ pc' = "aborted"
                /\ UNCHANGED <<parsed, ret>>
             \/ /\ ~IsHexArg(arg) /\ arg.is # "@missing"
                /\ payload' = IF ForPayload THEN Content[arg.is] ELSE payload
                /\ control' = IF ForPayload THEN control ELSE Content[arg.is]
                /\ i' = i + 1
                /\ UNCHANGED <<bmq_addr, enc_type, pubkeys_hex, pubkeys, pc, ret>>
       \/ /\ arg.kind # "option" /\ i < Len(argv) - 1
          /\ \/ /\ ~IsPubkeyArg(arg)
                /\ Usage
                /\ UNCHANGED parsed
             \/ /\ IsPubkeyArg(arg)
                /\ pubkeys_hex' = Append(pubkeys_hex, arg)
                /\ pubkeys' = Append(pubkeys, arg.node)     \* legacy_pubkey::from_hex
                /\ i' = i + 1
                /\ UNCHANGED <<bmq_addr, enc_type, payload, control, pc, ret>>
    /\ UNCHANGED <<argv, bus, locals_alive, lookup, chain, events>>

\* After the loop: no key is a usage error; else the bus is started, the
\* connection asked for and the request queued.
Start ==
    /\ pc = "args"
    /\ i > Len(argv)
    /\ \/ /\ pubkeys = <<>>
          /\ Usage
          /\ UNCHANGED <<bus, locals_alive>>
       \/ /\ pubkeys # <<>>
          /\ bmq_alive' = TRUE
          /\ locals_alive' = TRUE
          /\ conn' = "pending"
          /\ request' = "pending"
          /\ pc' = "wait"
          /\ UNCHANGED ret
    /\ UNCHANGED <<argv, parsed, lookup, chain, events>>

-----------------------------------------------------------------------------
(* The callbacks, on the threads of the bus                                *)

\* What the callback can be given: a failure, or an answer with the nodes
\* among those asked for that are active, some of them without ed25519
\* and x25519 keys; or, either way, a vector of no parts at all.
Responses ==
    [success : BOOLEAN, empty : {FALSE}, ok200 : BOOLEAN, parses : BOOLEAN,
     listed : SUBSET Range(pubkeys), keyless : SUBSET Range(pubkeys)]
    \cup [success : BOOLEAN, empty : {TRUE}, ok200 : {FALSE}, parses : {FALSE},
          listed : {{}}, keyless : {{}}]

Good(r) == r.success /\ r.ok200 /\ r.parses /\ r.listed \cap r.keyless = {}

\* An exception leaves a callback, on a thread of the bus, where no
\* handler of main() is: the bus takes it, or the process ends.
Escapes ==
    \/ UNCHANGED <<pc, bmq_alive>>
    \/ pc' = "aborted" /\ bmq_alive' = FALSE

\* got.set_value() or got.set_exception(): a promise takes one result, and
\* only while it exists.  The second call throws std::future_error, from
\* inside the handler that makes it, and a call on a promise that is gone
\* is undefined.
Complete(how) ==
    \/ /\ got = "unset" /\ locals_alive
       /\ got' = how
       /\ UNCHANGED <<events, pc, bmq_alive>>
    \/ /\ got # "unset" \/ ~locals_alive
       /\ events' = events \cup {e \in {"set_twice"} : got # "unset"}
                           \cup {e \in {"after_scope"} : ~locals_alive}
       /\ UNCHANGED got
       /\ Escapes

FailedSilently == UNCHANGED <<got, events, pc, bmq_alive>>

\* catch (...) { got.set_exception(std::current_exception()); }
Failed == Complete("exception")

\* The connection is there: [](auto) {}
Connected ==
    /\ bmq_alive
    /\ conn = "pending"
    /\ conn' = "up"
    /\ UNCHANGED <<argv, parsed, pc, ret, bmq_alive, request, locals_alive, lookup,
                   chain, events>>

\* The connection failed.
ConnectFails ==
    /\ bmq_alive
    /\ conn = "pending"
    /\ conn' = "failed"
    /\ Failed
    /\ UNCHANGED <<argv, parsed, ret, request, locals_alive, aux_keys, first_ip,
                   response, chain>>

LastHopListed(n) == Last(pubkeys_hex).node = n /\ ~Last(pubkeys_hex).upper

\* pk == pubkeys_hex.front(): the key as the daemon writes it, in lower
\* case, against the first key as it was typed.
FirstHopListed(n) == Head(pubkeys_hex).node = n /\ ~Head(pubkeys_hex).upper

\* The entries read before the loop ends or throws.
Recorded(done) ==
    /\ aux_keys' = done
    /\ first_ip' = IF \E n \in done : FirstHopListed(n)
                   THEN CHOOSE n \in done : FirstHopListed(n)
                   ELSE first_ip

\* data[0] of a vector with no parts is read all the same, for the
\* comparison with "200" or for the text of the exception.  The read is
\* undefined: it yields bytes that are not "200", and the callback throws
\* and catches as for any failure, or it ends the process.
ReadOfNoPart ==
    \/ Failed
    \/ /\ pc' = "aborted"
       /\ bmq_alive' = FALSE
       /\ UNCHANGED <<got, events>>

\* The callback of the request, with the daemon's answer or with the
\* failure of the request.
Reply(r) ==
    /\ bmq_alive
    /\ request = "pending"
    /\ conn = "up" \/ (conn = "failed" /\ ~r.success)
    /\ request' = "done"
    /\ response' = r
    /\ \/ /\ Good(r)
          /\ Recorded(r.listed)
          /\ Complete("value")
       \/ /\ ~Good(r) /\ ~r.empty
          /\ \E done \in SUBSET (r.listed \ r.keyless) :
                /\ (r.success /\ r.ok200 /\ r.parses) \/ done = {}
                /\ Recorded(done)
          /\ Failed
       \/ /\ r.empty
          /\ ReadOfNoPart
          /\ UNCHANGED <<aux_keys, first_ip>>
    /\ UNCHANGED <<argv, parsed, ret, conn, locals_alive, chain>>

-----------------------------------------------------------------------------
(* The main thread, from the wait on                                       *)

\* catch (const std::exception& e) { ...; return 2; }
Error ==
    /\ pc' = "leave"
    /\ ret' = 2

\* got_fut.get(): returns or throws once the promise has its result.
Wait ==
    /\ pc = "wait"
    /\ \/ got = "value" /\ pc' = "chain" /\ UNCHANGED ret
       \/ got = "exception" /\ Error
    /\ UNCHANGED <<argv, parsed, bus, locals_alive, lookup, chain, events>>

ChainIncompleteByTable(c) == Len(c) # Cardinality(aux_keys)

\* chain.size() != pubkeys.size()
ChainIncomplete(c) == Len(c) # Len(pubkeys)

\* The chain: the keys of every node of the path, in its order.
BuildChain ==
    /\ pc = "chain"
    /\ chain' = SelectSeq(pubkeys, LAMBDA pk : pk \in aux_keys)
    /\ \/ /\ ChainIncomplete(chain') \/ chain' = <<>> \/ first_ip = Nil
          /\ Error
       \/ /\ ~ChainIncomplete(chain') /\ chain' # <<>> /\ first_ip # Nil
          /\ pc' = "request"
          /\ UNCHANGED ret
    /\ UNCHANGED <<argv, parsed, bus, locals_alive, lookup, events>>

\* onion_request() returns, or throws.
OnionRequest ==
    /\ pc = "request"
    /\ \/ /\ pc' = "leave"
          /\ ret' = 0
          /\ UNCHANGED events
       \/ /\ Error
          /\ events' = events \cup {"request_threw"}
    /\ UNCHANGED <<argv, parsed, bus, locals_alive, lookup, chain>>

\* return: the locals declared after the bus go first ...
Leave ==
    /\ pc = "leave"
    /\ locals_alive' = FALSE
    /\ pc' = "stop_bus"
    /\ UNCHANGED <<argv, parsed, ret, bus, lookup, chain, events>>

\* ... and the bus, with its threads, last.
StopBus ==
    /\ pc = "stop_bus"
    /\ bmq_alive' = FALSE
    /\ pc' = "exited"
    /\ UNCHANGED <<argv, parsed, ret, conn, request, locals_alive, lookup, chain,
                   events>>

-----------------------------------------------------------------------------
(* Specification                                                           *)

Init ==
    /\ argv \in BoundedSeq(Words, MaxArgs)
    /\ i = 1
    /\ bmq_addr = "TESTNET_BMQ"
    /\ enc_type = "xchacha20"
    /\ payload = "" /\ control = ""
    /\ pubkeys_hex = <<>> /\ pubkeys = <<>>
    /\ pc = "args"
    /\ ret = Nil
    /\ bmq_alive = FALSE /\ locals_alive = FALSE
    /\ conn = Nil /\ request = Nil
    /\ got = "unset"
    /\ aux_keys = {} /\ first_ip = Nil /\ chain = <<>>
    /\ response = Nil
    /\ events = {}

Main == ParseArg \/ Start \/ Wait \/ BuildChain \/ OnionRequest \/ Leave \/ StopBus

Bus == Connected \/ ConnectFails \/ \E r \in Responses : Reply(r)

Next == Main \/ Bus

\* The main thread runs; the bus reports what became of a connection and
\* of a request, by an answer or by its timeout.
Spec == Init /\ [][Next]_vars /\ WF_vars(Main) /\ WF_vars(Bus)

-----------------------------------------------------------------------------
(* Properties                                                              *)

\* The type invariant; the two vectors of keys grow together, and main()
\* has a return value from the moment it leaves.
TypeOK ==
    /\ argv \in Seq(Words) /\ Len(argv) <= MaxArgs
    /\ i \in 1..Len(argv) + 1
    /\ bmq_addr \in Range(AddrOf)
    /\ enc_type \in Range(EtypeOf)
    /\ {payload, control} \subseteq Range(Content)
    /\ pubkeys \in Seq(Nodes)
    /\ Len(pubkeys_hex) = Len(pubkeys)
    /\ pc \in {"args", "wait", "chain", "request", "leave", "stop_bus", "exited",
               "aborted"}
    /\ pc \in {"leave", "stop_bus", "exited"} => ret # Nil
    /\ pc \in {"args", "wait", "chain", "request"} => ret = Nil
    /\ ret \in {0, 1, 2, Nil}
    /\ {bmq_alive, locals_alive} \subseteq BOOLEAN
    /\ conn \in {Nil, "pending", "up", "failed"}
    /\ request \in {Nil, "pending", "done"}
    /\ got \in {"unset", "value", "exception"}
    /\ aux_keys \subseteq Nodes
    /\ first_ip \in Nodes \cup {Nil}
    /\ chain \in Seq(Nodes) /\ Len(chain) <= Len(pubkeys)
    /\ events \subseteq {"set_twice", "after_scope", "request_threw"}

\* onion_request() is called with the path the user gave: one pair of
\* keys for each key on the command line, in the same order, and the
\* address of the first of them.  The callback fills a table keyed by
\* node and remembers one address while main() sleeps; main() picks from
\* the table afterwards and must notice every hole.
ChainMatchesPath ==
    pc = "request" =>
        /\ chain = pubkeys /\ chain # <<>>
        /\ first_ip = Head(pubkeys)
        /\ Range(pubkeys) \subseteq response.listed \ response.keyless

UpperCaseFirst == pubkeys_hex # <<>> /\ Head(pubkeys_hex).upper

NoRequestBecause ==
    \/ conn = "failed"
    \/ response # Nil /\ ~Good(response)
    \/ response # Nil /\ Range(pubkeys) \ response.listed # {}
    \/ "request_threw" \in events

\* main() returns 2 only for a reason outside the command line: the
\* connection or the request failed, the answer was unusable, a node of
\* the path is not active, or onion_request() threw; or, the one reason
\* inside it, the first key was typed in upper case.
ErrorsAreJustified == ret = 2 => NoRequestBecause \/ UpperCaseFirst

\* The promise is completed once, and while it exists: each callback that
\* calls set_value() or set_exception() is the first to do so and runs
\* before main() has destroyed `got`.
PromiseCompletedOnceAndAlive == events \cap {"set_twice", "after_scope"} = {}

\* What onion_request() is called with is what the command line says: its
\* arguments that are no options are the keys of the path, then PAYLOAD,
\* then CONTROL.  The loop of main() tells the three apart by the index of
\* the argument in argv, options counted, and so the command lines with
\* an option among their last two arguments are the exception: there a
\* key or nothing at all is taken for a value.
Positional == SelectSeq(argv, LAMBDA w : w.kind # "option")

OptionAmongLastTwo ==
    \E j \in DOMAIN argv : j >= Len(argv) - 1 /\ argv[j].kind = "option"

ArgumentsArePassed ==
    pc = "request" /\ ~OptionAmongLastTwo =>
        \E P, C \in {w \in Texts : w.is \in DOMAIN Content} :
            /\ Positional = pubkeys_hex \o <<P, C>>
            /\ payload = Content[P.is]
            /\ control = Content[C.is]

\* main() comes to an end: whatever the bus reports, and in whatever
\* order, one of the callbacks completes the promise main() waits on.
LookupEnds == <>(pc \in {"exited", "aborted"})

=============================================================================
